---- MODULE Spec2Model ----
(***************************************************************************)
(* Permission assignment on one Asset: the single-assignment serializer    *)
(* (AssetPermissionAssignmentSerializer) and the bulk reconciliation       *)
(* (AssetBulkInsertPermissionSerializer) of                                *)
(* kpi/serializers/v2/asset_permission_assignment.py.                      *)
(*                                                                         *)
(* Representation of Python values:                                        *)
(*  - None / an absent key is the empty tuple <<>>, a present value v is   *)
(*    the one-element tuple <<v>>;                                         *)
(*  - a dict is the sequence of its <<key, value>> pairs in insertion      *)
(*    order, keys unique;                                                  *)
(*  - a JSON string is represented by the tree it spells: the sequence of  *)
(*    <<key, value>> pairs in the order they are written in the string.    *)
(*    Two strings are equal iff these trees are equal.                     *)
(***************************************************************************)
EXTENDS Integers, Sequences, FiniteSets, TLC

\* ------------------------------------------------------------------ bounds

\* longest `assignments` list of one bulk request
MaxLen == 2
\* number of requests (bulk, single or list) in one behaviour
MaxRequests == 2

\* ------------------------------------------------------------- environment

PERM_PARTIAL_SUBMISSIONS == "partial_submissions"
PREFIX_PARTIAL_PERMS == "partial_"
SUFFIX_SUBMISSIONS_PERMS == "submissions"

\* The auth_user table: username -> pk.  someuser owns the asset.
UserTable == [someuser |-> 1, anotheruser |-> 2, thirduser |-> 3]
Usernames == DOMAIN UserTable
UserPks == {UserTable[n] : n \in Usernames}

\* user.username of the user with that pk
NameOf(user_pk) == CHOOSE n \in Usernames : UserTable[n] = user_pk

\* asset.owner_id
asset_owner_id == UserTable["someuser"]

\* Codenames that exist in the auth_permission table
AllCodenames ==
    { "add_asset", "change_submissions", "delete_submissions",
      "partial_submissions", "validate_submissions", "view_asset",
      "view_submissions" }

\* asset.get_assignable_permissions(with_partial=True)
get_assignable_permissions ==
    { "change_submissions", "delete_submissions", "partial_submissions",
      "validate_submissions", "view_asset", "view_submissions" }

\* asset.get_implied_perms(codename, for_instance=asset): every codename that
\* must be granted together with `codename` (transitively).
get_implied_perms(codename) ==
    CASE codename = "change_submissions" -> {"view_submissions", "view_asset"}
      [] codename = "delete_submissions" -> {"view_submissions", "view_asset"}
      [] codename = "validate_submissions" -> {"view_submissions", "view_asset"}
      [] codename = "view_submissions" -> {"view_asset"}
      [] codename = "partial_submissions" -> {"view_asset"}
      [] OTHER -> {}

\* str.endswith(SUFFIX_SUBMISSIONS_PERMS) on the codenames of the catalog
endswith_submissions(codename) ==
    codename \in { "change_submissions", "delete_submissions",
                   "partial_submissions", "validate_submissions",
                   "view_submissions" }

\* str.startswith(PREFIX_PARTIAL_PERMS) on the codenames of the catalog
startswith_partial(codename) == codename = "partial_submissions"

\* ------------------------------------------------------------- references

\* A URL is what the URL resolver makes of it: the matched view name and the
\* value of its keyword argument; view "" is a URL that matches no route.
UserUrl(username) == [view |-> "user-detail", key |-> username]
PermUrl(codename) == [view |-> "permission-detail", key |-> codename]
BadUrl == [view |-> "", key |-> ""]

\* absolute_resolve(url).kwargs[name]: <<value>>, or <<>> when the URL does
\* not resolve (Resolver404) or the match has no such kwarg (KeyError).
resolve_kwarg(url, name) ==
    IF url.view = "user-detail" /\ name = "username" THEN <<url.key>>
    ELSE IF url.view = "permission-detail" /\ name = "codename" THEN <<url.key>>
    ELSE <<>>

\* ------------------------------------------------------------------- dicts

DictKeys(d) == {d[i][1] : i \in DOMAIN d}

DictGet(d, k) == d[CHOOSE i \in DOMAIN d : d[i][1] = k][2]

\* d[k] = v: an existing key keeps its position, a new key goes last
DictSet(d, k, v) ==
    IF k \in DictKeys(d)
    THEN [i \in DOMAIN d |-> IF d[i][1] = k THEN <<k, v>> ELSE d[i]]
    ELSE Append(d, <<k, v>>)

\* item.get(key) on an item of a request, a dict with string keys: <<value>>,
\* or <<>> (None) when the item has no such key
item_get(item, key) == IF key \in DOMAIN item THEN <<item[key]>> ELSE <<>>

\* Lexicographic order of the strings used as dict keys
CodenameOrder ==
    << "add_asset", "change_submissions", "delete_submissions",
       "partial_submissions", "validate_submissions", "view_asset",
       "view_submissions" >>
FieldOrder == << "_id", "_submitted_by" >>

\* The pairs of d ordered as `order` lists their keys
SortKeys(d, order) ==
    LET ks == SelectSeq(order, LAMBDA k : k \in DictKeys(d))
    IN  [i \in 1..Len(ks) |-> <<ks[i], DictGet(d, ks[i])>>]

\* isinstance(filters_, dict): a dict is made of <<key, value>> pairs
is_dict(filters_) == \A i \in DOMAIN filters_ : Len(filters_[i]) = 2

\* json.dumps(partial_permissions, sort_keys=True): keys sorted at every
\* level of nesting, lists kept in their order.
json_dumps_sorted(perms) ==
    LET dumpPredicate(p) == IF is_dict(p) THEN SortKeys(p, FieldOrder) ELSE p
        dumpList(l) == [i \in DOMAIN l |-> dumpPredicate(l[i])]
        sorted == SortKeys(perms, CodenameOrder)
    IN  [i \in DOMAIN sorted |-> <<sorted[i][1], dumpList(sorted[i][2])>>]

\* json.loads(string): the dict whose keys are inserted in the order the
\* string writes them.
json_loads(string) == string

\* ---------------------------------------------------------- request values

\* Filter predicates (Mongo query dicts), as the client writes them
P_alice == << <<"_submitted_by", "alice">> >>
P_bob == << <<"_submitted_by", "bob">> >>
P_two == << <<"_submitted_by", "alice">>, <<"_id", "1">> >>
\* A predicate that is no dict: the JSON list [["alice"]]
P_list == << <<"alice">> >>

\* One item of the `partial_permissions` list of a request
Sub(codename, filters) == [url |-> PermUrl(codename), filters |-> filters]
\* Such an item without its `filters` key, and one without its `url` key
SubNoFilters(codename) == [url |-> PermUrl(codename)]
SubNoUrl(filters) == [filters |-> filters]

\* One item of the `assignments` list of a bulk request; partial_permissions
\* is <<>> when the key is absent (PartialPermissionField is required=False)
Entry(user_url, permission_url, partial_permissions) ==
    [user |-> user_url, permission |-> permission_url,
     partial_permissions |-> partial_permissions]

Plain(username, codename) ==
    Entry(UserUrl(username), PermUrl(codename), <<>>)

Partial(username, subs) ==
    Entry(UserUrl(username), PermUrl(PERM_PARTIAL_SUBMISSIONS), <<subs>>)

\* The clients of the API: each sends requests made of its own items
Clients ==
    { "sharing", "partial", "broken", "unresolved", "malformed", "repeating",
      "incomplete" }

\* The items the bulk requests of a client are made of
Entries(c) ==
    CASE c = "sharing" ->
           { Plain("anotheruser", "change_submissions"),
             Plain("thirduser", "view_submissions"),
             Plain("someuser", "view_asset") }
      [] c = "partial" ->
           { Partial("anotheruser",
                     << Sub("change_submissions", <<P_alice>>),
                        Sub("delete_submissions", <<P_bob>>) >>),
             Partial("anotheruser",
                     << Sub("delete_submissions", <<P_bob>>),
                        Sub("change_submissions", <<P_alice>>) >>),
             Partial("anotheruser",
                     << Sub("view_submissions", <<P_two, P_bob>>) >>),
             Plain("anotheruser", "view_submissions") }
      [] c = "broken" ->
           { Plain("someuser", "view_asset"),
             Plain("anotheruser", "add_asset"),
             Plain("nobody", "view_asset"),
             Plain("anotheruser", PERM_PARTIAL_SUBMISSIONS) }
      [] c = "unresolved" ->
           { Entry(UserUrl("thirduser"), BadUrl, <<>>),
             Entry(BadUrl, PermUrl("view_asset"), <<>>),
             Plain("thirduser", "view_submissions") }
      [] c = "malformed" ->
           { Entry(UserUrl("thirduser"), PermUrl(PERM_PARTIAL_SUBMISSIONS),
                   << <<>> >>),
             Partial("anotheruser", << Sub("view_asset", <<P_alice>>) >>),
             Partial("anotheruser", << Sub("view_submissions", <<P_list>>) >>) }
      [] c = "repeating" ->
           { Partial("thirduser", << Sub("view_submissions", <<P_alice>>),
                                     Sub("view_submissions", <<P_bob>>) >>),
             Plain("thirduser", "view_asset") }
      [] c = "incomplete" ->
           { Plain("thirduser", "view_asset") }

RECURSIVE SeqsUpTo(_, _)
SeqsUpTo(S, n) ==
    IF n = 0 THEN {<<>>}
    ELSE LET shorter == SeqsUpTo(S, n - 1)
         IN  shorter \cup {Append(s, e) : s \in shorter, e \in S}

\* request.data['assignments'] of the bulk requests of each client
BulkInputs == [c \in Clients |-> SeqsUpTo(Entries(c), MaxLen)]

\* --------------------------------------------------------- bulk validation

\* AssetBulkInsertPermissionSerializer._get_permission_codename: <<codename>>,
\* or <<>> when it raises ValidationError
get_permission_codename(permission_url) ==
    resolve_kwarg(permission_url, "codename")

\* AssetBulkInsertPermissionSerializer._get_username: <<username>>, or <<>>
\* when it raises ValidationError
get_username(user_url) == resolve_kwarg(user_url, "username")

SeqToSet(s) == {s[i] : i \in DOMAIN s}

\* Mutant: the difference with the assignable codenames is not looked at
validate_codenames_unchecked(codenames, suffix) == TRUE

\* _validate_codenames(codenames, suffix): TRUE when it returns, FALSE when
\* it raises ValidationError('Invalid code names').  `suffix` only selects
\* what is returned.
validate_codenames(codenames, suffix) ==
    LET diff == SeqToSet(codenames) \ get_assignable_permissions
    IN  diff = {}

\* _validate_usernames(usernames): TRUE when it returns, FALSE when it raises
\* ValidationError('Invalid usernames')
validate_usernames(usernames) ==
    LET names == SeqToSet(usernames)
        users == {n \in Usernames : n \in names}
    IN  Cardinality(users) = Cardinality(names)

\* The codenames of the items of one partial_permissions list, in order;
\* status "invalid" as soon as one URL does not resolve
RECURSIVE collect_partial(_, _, _)
collect_partial(partial_permissions, i, acc) ==
    IF i > Len(partial_permissions) THEN [status |-> "ok", codenames |-> acc]
    ELSE LET c == get_permission_codename(partial_permissions[i].url)
         IN  IF c = <<>> THEN [status |-> "invalid", codenames |-> acc]
             ELSE collect_partial(partial_permissions, i + 1, Append(acc, c[1]))

\* validate(), first loop (lines 448-457): usernames, codenames and
\* partial_codenames of the whole request.  status "invalid" is a
\* ValidationError, "error" is the KeyError of a partial entry that has no
\* 'partial_permissions' key.
RECURSIVE collect(_, _, _)
collect(assignments, idx, acc) ==
    IF idx > Len(assignments) THEN acc
    ELSE
      LET assignment == assignments[idx]
          c == get_permission_codename(assignment.permission)
          u == get_username(assignment.user)
      IN
      IF c = <<>> THEN [acc EXCEPT !.status = "invalid"]
      ELSE IF c[1] = PERM_PARTIAL_SUBMISSIONS
              /\ assignment.partial_permissions = <<>>
      THEN [acc EXCEPT !.status = "error"]
      ELSE
        LET p == IF c[1] = PERM_PARTIAL_SUBMISSIONS
                 THEN collect_partial(assignment.partial_permissions[1], 1, <<>>)
                 ELSE [status |-> "ok", codenames |-> <<>>]
        IN
        IF p.status # "ok" \/ u = <<>> THEN [acc EXCEPT !.status = "invalid"]
        ELSE collect(assignments, idx + 1,
                     [status |-> "ok",
                      usernames |-> Append(acc.usernames, u[1]),
                      codenames |-> Append(acc.codenames, c[1]),
                      partial_codenames |-> acc.partial_codenames \o p.codenames])

\* Mutant: the codenames an item was given stay at the front of the queue
RECURSIVE convert_without_pop(_, _, _, _, _)
convert_without_pop(assignments, names, idx, queue, objects) ==
    IF idx > Len(assignments) THEN [objects |-> objects, queue |-> queue]
    ELSE
      LET assignment == assignments[idx]
          codename == names.codenames[idx]
          user_pk == UserTable[names.usernames[idx]]
          subs == assignment.partial_permissions[1]
          RECURSIVE fill(_, _)
          fill(j, d) ==
              IF j > Len(subs) THEN d
              ELSE fill(j + 1, DictSet(d, queue[j], subs[j].filters))
      IN  convert_without_pop(
              assignments, names, idx + 1, queue,
              Append(objects,
                     [user |-> user_pk, permission |-> codename,
                      partial_permissions |->
                          IF codename = PERM_PARTIAL_SUBMISSIONS
                          THEN <<fill(1, <<>>)>> ELSE <<>>]))

\* validate(), second loop (lines 473-494): the assignment objects, and what
\* is left of the partial_codenames queue.
RECURSIVE convert(_, _, _, _, _)
convert(assignments, names, idx, queue, objects) ==
    IF idx > Len(assignments) THEN [objects |-> objects, queue |-> queue]
    ELSE
      LET assignment == assignments[idx]
          codename == names.codenames[idx]
          user_pk == UserTable[names.usernames[idx]]
      IN
      IF codename = PERM_PARTIAL_SUBMISSIONS
      THEN LET subs == assignment.partial_permissions[1]
               n == Len(subs)
               \* one pop(0) per item; the item's filters replace the value
               \* already stored under that codename
               RECURSIVE fill(_, _)
               fill(j, d) ==
                   IF j > n THEN d
                   ELSE fill(j + 1, DictSet(d, queue[j], subs[j].filters))
           IN  convert(assignments, names, idx + 1,
                       SubSeq(queue, n + 1, Len(queue)),
                       Append(objects,
                              [user |-> user_pk, permission |-> codename,
                               partial_permissions |-> <<fill(1, <<>>)>>]))
      ELSE convert(assignments, names, idx + 1, queue,
                   Append(objects,
                          [user |-> user_pk, permission |-> codename,
                           partial_permissions |-> <<>>]))

\* AssetBulkInsertPermissionSerializer.validate(attrs)
validate(assignments) ==
    LET names == collect(assignments, 1,
                         [status |-> "ok", usernames |-> <<>>,
                          codenames |-> <<>>, partial_codenames |-> <<>>])
    IN
    IF names.status # "ok" THEN [status |-> names.status, assignments |-> <<>>]
    ELSE IF ~validate_codenames(names.partial_codenames, SUFFIX_SUBMISSIONS_PERMS)
            \/ ~validate_usernames(names.usernames)
            \/ ~validate_codenames(names.codenames, "")
    THEN [status |-> "invalid", assignments |-> <<>>]
    ELSE [status |-> "ok",
          assignments |->
              convert(assignments, names, 1, names.partial_codenames, <<>>).objects]

\* ------------------------------------------------------- the entity store

\* The rows of ObjectPermission for this asset: how many rows there are for
\* each (user pk, codename), and the rows of AssetUserPartialPermission:
\* pairs <<user pk, permissions dict>>.
NoRows == [k \in UserPks \X AllCodenames |-> 0]

\* Mutant: a row is inserted whether or not there is one already
assign_perm_rows_insert(rows, user_pk, perm) ==
    [rows EXCEPT ![<<user_pk, perm>>] = @ + 1]

\* asset.assign_perm(user_obj, perm, partial_perms): the grant is keyed by
\* (user, codename): an existing row is kept, and the user's partial
\* permissions are replaced as a whole.
assign_perm_rows(rows, user_pk, perm) ==
    IF rows[<<user_pk, perm>>] > 0 THEN rows
    ELSE [rows EXCEPT ![<<user_pk, perm>>] = 1]

assign_perm_partial(partials, user_pk, perm, partial_perms) ==
    IF perm = PERM_PARTIAL_SUBMISSIONS /\ partial_perms # <<>>
    THEN {pp \in partials : pp[1] # user_pk} \cup {<<user_pk, partial_perms[1]>>}
    ELSE partials

\* asset.remove_perm(user_obj, perm): the rows of (user, codename) go, and
\* with the partial grant the user's partial permissions
remove_perm_rows(rows, user_pk, perm) ==
    [rows EXCEPT ![<<user_pk, perm>>] = 0]

remove_perm_partial(partials, user_pk, perm) ==
    IF perm = PERM_PARTIAL_SUBMISSIONS
    THEN {pp \in partials : pp[1] # user_pk}
    ELSE partials

\* get_user_permission_assignments_queryset(asset, request.user)
\*   .values_list('user', 'permission__codename'): the acting user may change
\* the assignments of the asset, and so sees all of them
get_user_permission_assignments_queryset(rows) ==
    {k \in UserPks \X AllCodenames : rows[k] > 0}

\* ------------------------------------------------------------ bulk create

\* create(), lines 340-352: every implied codename that ends with
\* SUFFIX_SUBMISSIONS_PERMS gets the filters of the codename that implies it.
\* The loop runs over a copy of the dict, in insertion order.
RECURSIVE expand_implied(_, _, _)
expand_implied(partial_permissions, items, i) ==
    IF i > Len(items) THEN partial_permissions
    ELSE
      LET partially_granted_codename == items[i][1]
          filter_criteria == items[i][2]
          implied == SelectSeq(CodenameOrder,
                         LAMBDA c : c \in get_implied_perms(partially_granted_codename)
                                    /\ endswith_submissions(c))
          RECURSIVE put(_, _)
          put(j, d) == IF j > Len(implied) THEN d
                       ELSE put(j + 1, DictSet(d, implied[j], filter_criteria))
      IN  expand_implied(put(1, partial_permissions), items, i + 1)

\* create(), lines 338-355: the serialized partial permissions of one
\* incoming partial assignment
incoming_partial_permissions(partial_permissions) ==
    json_dumps_sorted(
        expand_implied(partial_permissions, partial_permissions, 1))

\* Mutant: the implied codenames are not added
incoming_of_without_implied(incoming_assignment) ==
    { << incoming_assignment.user, incoming_assignment.permission,
         IF incoming_assignment.permission = PERM_PARTIAL_SUBMISSIONS
         THEN <<incoming_partial_permissions(
                    incoming_assignment.partial_permissions[1])>>
         ELSE <<>> >> }

\* Mutant: a partial assignment adds the codenames it implies as well
incoming_of_partial_with_implied(incoming_assignment) ==
    { <<incoming_assignment.user, implied_codename, <<>> >> :
          implied_codename \in get_implied_perms(incoming_assignment.permission) }
    \cup { << incoming_assignment.user, incoming_assignment.permission,
              IF incoming_assignment.permission = PERM_PARTIAL_SUBMISSIONS
              THEN <<incoming_partial_permissions(
                         incoming_assignment.partial_permissions[1])>>
              ELSE <<>> >> }

\* create(), lines 329-371: the triples one incoming assignment adds
incoming_of(incoming_assignment) ==
    LET user_pk == incoming_assignment.user
        codename == incoming_assignment.permission
    IN
    IF codename = PERM_PARTIAL_SUBMISSIONS
    THEN { <<user_pk, codename,
             <<incoming_partial_permissions(
                   incoming_assignment.partial_permissions[1])>> >> }
    ELSE { <<user_pk, implied_codename, <<>> >> :
               implied_codename \in get_implied_perms(codename) }
         \cup { <<user_pk, codename, <<>> >> }

\* create(), lines 327-371
build_incoming_assignments(assignments) ==
    UNION {incoming_of(assignments[i]) : i \in DOMAIN assignments}

\* create(), lines 375-377: dict(values_list('user', 'permissions'))
existing_partial_perms_for_user(partials, user_pk) ==
    (CHOOSE pp \in partials : pp[1] = user_pk)[2]

\* Mutant: the assignments of the owner are not excluded
build_existing_assignments_with_owner(rows, partials) ==
    { <<k[1], k[2],
        IF k[2] = PERM_PARTIAL_SUBMISSIONS
        THEN <<json_dumps_sorted(existing_partial_perms_for_user(partials, k[1]))>>
        ELSE <<>> >> :
      k \in get_user_permission_assignments_queryset(rows) }

\* Mutant: the owner's assignments are kept and all others excluded
build_existing_assignments_of_owner(rows, partials) ==
    { <<k[1], k[2], <<>> >> :
      k \in {r \in get_user_permission_assignments_queryset(rows) :
                 r[1] = asset_owner_id} }

\* Mutant: every triple of a user who has partial permissions carries them
build_existing_assignments_all_filtered(rows, partials) ==
    { <<k[1], k[2],
        IF \E pp \in partials : pp[1] = k[1]
        THEN <<json_dumps_sorted(existing_partial_perms_for_user(partials, k[1]))>>
        ELSE <<>> >> :
      k \in {r \in get_user_permission_assignments_queryset(rows) :
                 r[1] # asset_owner_id} }

\* create(), lines 380-398
build_existing_assignments(rows, partials) ==
    { <<k[1], k[2],
        IF k[2] = PERM_PARTIAL_SUBMISSIONS
        THEN <<json_dumps_sorted(existing_partial_perms_for_user(partials, k[1]))>>
        ELSE <<>> >> :
      k \in {r \in get_user_permission_assignments_queryset(rows) :
                 r[1] # asset_owner_id} }

\* create(), lines 402-407: the users of the existing assignments that are
\* not among the users of the incoming ones (the keys of user_pk_to_obj)
uncached_users(existing, incoming) ==
    {t[1] : t \in existing} \ {t[1] : t \in incoming}

\* create(), lines 375-407: the queries made before the loops.  One reads the
\* partial permissions (375-377), one the assignments (394-397), and one the
\* users that are not cached (402-406); a filter on an empty set of pks is
\* answered without a query.
read_queries(existing, incoming) ==
    2 + (IF uncached_users(existing, incoming) # {} THEN 1 ELSE 0)

\* Mutant: the addition loop does not look for the owner
is_owner_never(user_pk) == FALSE

\* create(), line 418
is_owner(user_pk) == asset_owner_id = user_pk

\* create(), lines 422-423
loaded_partial_perms(partial_perms) ==
    IF partial_perms # <<>> THEN <<json_loads(partial_perms[1])>> ELSE <<>>

\* is_valid() of the bulk serializer on every request of every client: how
\* validate() ends and, when it returns, the set create() builds from what it
\* returns (lines 327-371)
BulkRequests ==
    [c \in Clients |->
        { LET v == validate(d)
          IN  [data |-> d, status |-> v.status,
               incoming |-> IF v.status = "ok"
                            THEN build_incoming_assignments(v.assignments)
                            ELSE {}] :
          d \in BulkInputs[c] }]

\* ------------------------------------------------------ single assignment

\* Mutant: every codename is taken for assignable
validate_permission_codename_any(codename, with_suffix) == TRUE

\* AssetPermissionAssignmentSerializer._validate_permission(codename, suffix)
validate_permission_codename(codename, with_suffix) ==
    /\ codename \in get_assignable_permissions
    /\ (~with_suffix \/ endswith_submissions(codename))

\* validate_partial_permissions(), lines 163-190, with the generator of lines
\* 264-266: the pairs the generator yields are taken in order.  status is
\* "invalid" as soon as one of them is rejected, "error" when the generator
\* iterates over the None of an item without `filters` (TypeError), else
\* "ok" with the defaultdict(list) in attr.
RECURSIVE accumulate_partial(_, _, _, _)
accumulate_partial(partial_permissions, i, j, attr) ==
    IF i > Len(partial_permissions) THEN [status |-> "ok", attr |-> attr]
    ELSE
      LET partial_permission == partial_permissions[i]
          filters == item_get(partial_permission, "filters")
      IN
      IF filters = <<>> THEN [status |-> "error", attr |-> attr]
      ELSE IF j > Len(filters[1])
      THEN accumulate_partial(partial_permissions, i + 1, 1, attr)
      ELSE
        LET filters_ == filters[1][j]
            url == item_get(partial_permission, "url")
            c == IF url = <<>> THEN <<>> ELSE resolve_kwarg(url[1], "codename")
        IN
        IF c = <<>> THEN [status |-> "invalid", attr |-> attr]
        ELSE IF ~validate_permission_codename(c[1], TRUE)
        THEN [status |-> "invalid", attr |-> attr]
        ELSE IF ~is_dict(filters_) THEN [status |-> "invalid", attr |-> attr]
        ELSE accumulate_partial(
                 partial_permissions, i, j + 1,
                 DictSet(attr, c[1],
                         IF c[1] \in DictKeys(attr)
                         THEN Append(DictGet(attr, c[1]), filters_)
                         ELSE <<filters_>>))

\* validate_partial_permissions(attrs): how it ends, and the value it adds to
\* attrs (<<>> when it adds none).  status "invalid" is the
\* ValidationError({'partial_permissions': ...}), "error" the TypeError.
validate_partial_permissions(codename, partial_permissions) ==
    IF ~startswith_partial(codename)
    THEN [status |-> "ok", partial_permissions |-> <<>>]
    ELSE IF partial_permissions = <<>> \/ partial_permissions = << <<>> >>
    THEN [status |-> "invalid", partial_permissions |-> <<>>]
    ELSE LET r == accumulate_partial(partial_permissions[1], 1, 1, <<>>)
         IN  [status |-> r.status,
              partial_permissions |-> IF r.status = "ok" THEN <<r.attr>>
                                      ELSE <<>>]

\* The hyperlinked `user` and `permission` fields: the URL resolves and the
\* object it names exists
user_field(user_url) ==
    LET u == resolve_kwarg(user_url, "username")
    IN  IF u # <<>> /\ u[1] \in Usernames THEN <<UserTable[u[1]]>> ELSE <<>>

permission_field(permission_url) ==
    LET c == resolve_kwarg(permission_url, "codename")
    IN  IF c # <<>> /\ c[1] \in AllCodenames THEN c ELSE <<>>

\* Mutant: create() does not look for the owner
single_is_owner_never(user_pk) == FALSE

\* create(), line 65
single_is_owner(user_pk) == asset_owner_id = user_pk

\* is_valid() then create() of AssetPermissionAssignmentSerializer on one
\* request: what the request ends with, and the grant it makes
single_assignment(request) ==
    LET user == user_field(request.user)
        permission == permission_field(request.permission)
        none == [user |-> 0, permission |-> "", partial_permissions |-> <<>>]
    IN
    IF user = <<>> \/ permission = <<>>
    THEN [status |-> "InvalidReference", grant |-> none]
    ELSE IF ~validate_permission_codename(permission[1], FALSE)
    THEN [status |-> "PermissionNotAssignable", grant |-> none]
    ELSE
      LET v == validate_partial_permissions(permission[1],
                                            request.partial_permissions)
      IN
      IF v.status = "error" THEN [status |-> "TypeError", grant |-> none]
      ELSE IF v.status = "invalid"
      THEN [status |-> "InvalidPartialPermissions", grant |-> none]
      ELSE IF single_is_owner(user[1])
      THEN [status |-> "OwnerAssignmentForbidden", grant |-> none]
      ELSE [status |-> "created",
            grant |-> [user |-> user[1], permission |-> permission[1],
                       partial_permissions |-> v.partial_permissions]]

\* ---------------------------------------------------------- representation

\* asset.get_partial_perms(user_id, with_filters=True): <<the permissions
\* dict of the user>>, <<>> (None) when the user has none
get_partial_perms(partials, user_pk) ==
    IF \E pp \in partials : pp[1] = user_pk
    THEN <<(CHOOSE pp \in partials : pp[1] = user_pk)[2]>>
    ELSE <<>>

\* get_partial_permissions(object_permission), lines 90-111: <<the list of
\* {url, filters}>>, in the order of the dict, or <<>> for None
get_partial_permissions(partials, user_pk, codename) ==
    IF startswith_partial(codename)
    THEN LET partial_perms == get_partial_perms(partials, user_pk)
         IN  IF partial_perms = <<>> \/ partial_perms[1] = <<>>
             THEN <<>>
             ELSE << [i \in DOMAIN partial_perms[1] |->
                        [url |-> PermUrl(partial_perms[1][i][1]),
                         filters |-> partial_perms[1][i][2]]] >>
    ELSE <<>>

\* super().to_representation(instance): the fields of Meta.fields that
\* depend on the assignment, each with its value (<<>> for None); `url` and
\* `label` are left out
fields_representation(partials, user_pk, codename) ==
    << <<"user", <<UserUrl(NameOf(user_pk))>> >>,
       <<"permission", <<PermUrl(codename)>> >>,
       <<"partial_permissions",
         get_partial_permissions(partials, user_pk, codename)>> >>

\* Mutant: a partial_permissions of None stays in the representation
to_representation_with_none(partials, user_pk, codename) ==
    fields_representation(partials, user_pk, codename)

\* to_representation(instance), lines 210-235
to_representation(partials, user_pk, codename) ==
    SelectSeq(fields_representation(partials, user_pk, codename),
              LAMBDA kv : ~(kv[1] = "partial_permissions" /\ kv[2] = <<>>))

\* The list of the assignments of the asset: one representation per row
list_representation(rows, partials) ==
    { to_representation(partials, k[1], k[2]) :
        k \in get_user_permission_assignments_queryset(rows) }

\* The requests each client sends to the single-assignment endpoint
SingleInputs(c) ==
    CASE c = "sharing" ->
           { Plain("someuser", "view_asset"),
             Plain("anotheruser", "view_submissions") }
      [] c = "partial" ->
           { Partial("someuser", << Sub("view_submissions", <<P_alice>>) >>),
             Partial("thirduser", << Sub("view_submissions", <<P_bob>>),
                                     Sub("change_submissions", <<P_alice>>),
                                     Sub("view_submissions", <<P_two>>) >>) }
      [] c = "broken" ->
           { Plain("thirduser", "add_asset"),
             Plain("anotheruser", PERM_PARTIAL_SUBMISSIONS),
             Plain("nobody", "view_asset") }
      [] c = "unresolved" ->
           { Entry(UserUrl("thirduser"), BadUrl, <<>>),
             Entry(BadUrl, PermUrl("view_asset"), <<>>) }
      [] c = "malformed" ->
           { Plain("thirduser", PERM_PARTIAL_SUBMISSIONS),
             Entry(UserUrl("thirduser"), PermUrl(PERM_PARTIAL_SUBMISSIONS),
                   << <<>> >>),
             Partial("thirduser", << Sub("view_submissions", <<>>) >>),
             Partial("thirduser", << Sub("view_submissions", <<P_list>>) >>) }
      [] c = "repeating" ->
           { Partial("thirduser", << Sub("view_submissions", <<P_alice>>),
                                     Sub("view_submissions", <<P_bob>>) >>) }
      [] c = "incomplete" ->
           { Partial("thirduser", << Sub("view_asset", <<P_alice>>) >>),
             Partial("thirduser", << Sub("view_asset", <<>>),
                                     Sub("view_submissions", <<P_alice>>) >>),
             Partial("thirduser", << SubNoFilters("view_submissions") >>),
             Partial("thirduser", << SubNoUrl(<<P_alice>>) >>),
             Partial("thirduser", << [url |-> BadUrl, filters |-> <<P_alice>>] >>),
             Plain("someuser", "add_asset"),
             Plain("someuser", PERM_PARTIAL_SUBMISSIONS),
             Partial("someuser", << Sub("view_submissions", <<P_list>>) >>),
             Partial("someuser", << Sub("view_asset", <<>>) >>),
             Partial("someuser", << SubNoFilters("view_submissions") >>) }

\* ------------------------------------------------------------- submissions

\* bound: requests on the submissions in one behaviour
MaxRecordRequests == 2

\* One submission of the deployment (__add_submissions): its _id, who
\* submitted it, an answer and its validation status
Submission(id, submitted_by) ==
    [_id |-> id, _submitted_by |-> submitted_by, q1 |-> "answer",
     _validation_status |-> [uid |-> "validation_status_on_hold",
                             by_whom |-> "someuser"]]

\* asset.deployment.mock_submissions(submissions)
MockSubmissions ==
    { Submission("1", "alice"), Submission("2", "alice"),
      Submission("3", "bob") }
SubmissionIds == {sub._id : sub \in MockSubmissions}

\* The user the requests on the submissions are made as
\* (_log_in_as_another_user)
request_user == UserTable["anotheruser"]

\* The grants the tests make with asset.assign_perm before the requests
TestGrants ==
    { [perm |-> "view_submissions", partial_perms |-> <<>>],
      [perm |-> "delete_submissions", partial_perms |-> <<>>],
      [perm |-> PERM_PARTIAL_SUBMISSIONS,
       partial_perms |-> << << <<"view_submissions", <<P_alice>> >> >> >>],
      [perm |-> PERM_PARTIAL_SUBMISSIONS,
       partial_perms |-> << << <<"delete_submissions", <<P_alice>> >> >> >>],
      [perm |-> PERM_PARTIAL_SUBMISSIONS,
       partial_perms |-> << << <<"change_submissions", <<P_alice>> >> >> >>],
      [perm |-> PERM_PARTIAL_SUBMISSIONS,
       partial_perms |-> << << <<"validate_submissions", <<P_alice>> >> >> >>],
      [perm |-> PERM_PARTIAL_SUBMISSIONS,
       partial_perms |-> << << <<"view_submissions", <<P_two, P_bob>> >>,
                               <<"delete_submissions", <<P_bob>> >> >> >>] }

\* A submission matches a predicate when it has every value the predicate
\* names
matches(submission, predicate) ==
    \A i \in DOMAIN predicate : submission[predicate[i][1]] = predicate[i][2]

\* The user has `codename` on the submissions of the asset, as a whole or
\* through the partial grant
has_submission_perm(rows, partials, user_pk, codename) ==
    \/ user_pk = asset_owner_id
    \/ rows[<<user_pk, codename>>] > 0
    \/ /\ rows[<<user_pk, PERM_PARTIAL_SUBMISSIONS>>] > 0
       /\ get_partial_perms(partials, user_pk) # <<>>
       /\ codename \in DictKeys(get_partial_perms(partials, user_pk)[1])

\* Mutant: the filters of the partial grant are not applied
allowed_submissions_unfiltered(rows, partials, user_pk, codename, subs) ==
    IF has_submission_perm(rows, partials, user_pk, codename) THEN subs ELSE {}

\* The submissions among `subs` the user may act on with `codename`: all of
\* them for the owner and for a grant of `codename`; for the partial grant
\* those that match one of the predicates of the FilterSet's entry for
\* `codename`
allowed_submissions(rows, partials, user_pk, codename, subs) ==
    IF user_pk = asset_owner_id \/ rows[<<user_pk, codename>>] > 0 THEN subs
    ELSE IF has_submission_perm(rows, partials, user_pk, codename)
    THEN LET filters == DictGet(get_partial_perms(partials, user_pk)[1],
                                codename)
         IN  {sub \in subs : \E j \in DOMAIN filters : matches(sub, filters[j])}
    ELSE {}

\* Mutant: of the listed submissions, those the user may act on are taken
\* and the others skipped
record_action_lenient(rows, partials, user_pk, codename, submission_ids, subs) ==
    LET allowed == allowed_submissions(rows, partials, user_pk, codename, subs)
    IN  IF ~has_submission_perm(rows, partials, user_pk, codename)
        THEN [status |-> 403, affected |-> {}]
        ELSE [status |-> 200,
              affected |-> IF submission_ids = <<>> THEN allowed
                           ELSE {sub \in allowed : sub._id \in submission_ids[1]}]

\* Mutant: a request that lists no submission acts on all the submissions
record_action_on_all(rows, partials, user_pk, codename, submission_ids, subs) ==
    LET allowed == allowed_submissions(rows, partials, user_pk, codename, subs)
        requested == IF submission_ids = <<>> THEN subs
                     ELSE {sub \in subs : sub._id \in submission_ids[1]}
    IN  IF ~has_submission_perm(rows, partials, user_pk, codename)
        THEN [status |-> 403, affected |-> {}]
        ELSE IF submission_ids = <<>> \/ requested \subseteq allowed
        THEN [status |-> 200, affected |-> requested]
        ELSE [status |-> 403, affected |-> {}]

\* A request to act with `codename` on the submissions listed in
\* submission_ids, or on all the user may act on when none is listed
\* (<<>>, the payload confirms): its status and the submissions it changes
record_action(rows, partials, user_pk, codename, submission_ids, subs) ==
    LET allowed == allowed_submissions(rows, partials, user_pk, codename, subs)
        requested == IF submission_ids = <<>> THEN allowed
                     ELSE {sub \in subs : sub._id \in submission_ids[1]}
    IN  IF ~has_submission_perm(rows, partials, user_pk, codename)
        THEN [status |-> 403, affected |-> {}]
        ELSE IF requested \subseteq allowed
        THEN [status |-> 200, affected |-> requested]
        ELSE [status |-> 403, affected |-> {}]

\* What the bulk update and the validation status edit make of a submission
updated(sub) == [sub EXCEPT !.q1 = "updated"]
validated(sub, user_pk) ==
    [sub EXCEPT !._validation_status =
                    [uid |-> "validation_status_approved",
                     by_whom |-> NameOf(user_pk)]]

\* The lists of ids a request may carry: none, or some of the ids
SubmissionIdLists == {<<>>} \cup {<<ids>> : ids \in (SUBSET SubmissionIds) \ {{}}}

\* ------------------------------------------------------------------- state

VARIABLES
    client,                     \* who sends the requests
    object_permissions,         \* ObjectPermission rows of the asset
    asset_partial_permissions,  \* AssetUserPartialPermission rows of the asset
    pc,                         \* where the bulk request is
    data,                       \* 'assignments' of the bulk request
    incoming_assignments,       \* create(): the set built at lines 327-371
    existing_assignments,       \* create(): the set built at lines 380-398
    removals,                   \* removals still to perform (line 410)
    additions,                  \* additions still to perform (line 416)
    before_rows,                \* object_permissions when the request came in
    before_partials,            \* asset_partial_permissions at that time
    calls,                      \* bulk requests so far
    issued,                     \* remove_perm / assign_perm calls of create()
    write_count,                \* how many of them there were
    reads,                      \* queries create() made before the loops
    single_request,             \* the last single-assignment request
    single_result,              \* and how it ended
    singles,                    \* single-assignment requests so far
    rendered,                   \* the assignments in the last response body
    lists,                      \* GETs of the assignments so far
    submissions,                \* the submissions of the deployment
    before_submissions,         \* submissions when the last request came in
    record_request,             \* the last request on the submissions
    record_status,              \* its HTTP status
    record_results,             \* the submissions in its response body
    record_calls,               \* requests on the submissions so far
    concurrent                  \* a second bulk request, applied meanwhile

vars == << client, object_permissions, asset_partial_permissions, pc, data,
           incoming_assignments, existing_assignments, removals, additions,
           before_rows, before_partials, calls, issued, write_count, reads,
           single_request, single_result, singles, rendered, lists, submissions,
           before_submissions, record_request, record_status, record_results,
           record_calls, concurrent >>

store == << object_permissions, asset_partial_permissions >>
bulk == << pc, data, incoming_assignments, existing_assignments, removals,
           additions, before_rows, before_partials, calls, issued,
           write_count, reads >>
single == << single_request, single_result, singles >>
records == << submissions, before_submissions, record_request, record_status,
             record_results, record_calls >>

\* No request on the submissions has been made
NoRecordRequest ==
    /\ submissions = MockSubmissions
    /\ before_submissions = MockSubmissions
    /\ record_request = [op |-> "none", submission_ids |-> <<>>]
    /\ record_status = 0
    /\ record_results = {}
    /\ record_calls = 0

\* No second bulk request has come in
NoConcurrent ==
    [pc |-> "idle", data |-> <<>>, incoming_assignments |-> {},
     existing_assignments |-> {}, removals |-> {}, additions |-> {}]

\* The stores a behaviour starts from: grants made earlier, none to the owner
InitialStores ==
    { << [NoRows EXCEPT ![<<2, "view_asset">>] = 1,
                        ![<<2, "view_submissions">>] = 1,
                        ![<<3, "view_asset">>] = 1], {} >>,
      << [NoRows EXCEPT ![<<2, "partial_submissions">>] = 1,
                        ![<<3, "delete_submissions">>] = 1],
         { <<2, << <<"view_submissions", <<P_bob, P_two>> >> >> >> } >>,
      << [NoRows EXCEPT ![<<2, "partial_submissions">>] = 1,
                        ![<<2, "view_asset">>] = 1],
         { <<2, << <<"view_submissions", <<P_alice>> >>,
                   <<"delete_submissions", <<P_bob>> >>,
                   <<"change_submissions", <<P_alice>> >> >> >> } >> }

Init ==
    /\ client \in Clients
    /\ \E s \in InitialStores :
          /\ object_permissions = s[1]
          /\ asset_partial_permissions = s[2]
    /\ pc = "idle"
    /\ data = <<>>
    /\ incoming_assignments = {}
    /\ existing_assignments = {}
    /\ removals = {}
    /\ additions = {}
    /\ before_rows = object_permissions
    /\ before_partials = asset_partial_permissions
    /\ calls = 0
    /\ issued = {}
    /\ write_count = 0
    /\ reads = 0
    /\ single_request = Plain("", "")
    /\ single_result = "none"
    /\ singles = 0
    /\ rendered = {}
    /\ lists = 0
    /\ NoRecordRequest
    /\ concurrent = NoConcurrent

\* The state after setUp() of the submission tests: no assignment yet
InitRecords ==
    /\ client = "sharing"
    /\ object_permissions = NoRows
    /\ asset_partial_permissions = {}
    /\ pc = "idle"
    /\ data = <<>>
    /\ incoming_assignments = {}
    /\ existing_assignments = {}
    /\ removals = {}
    /\ additions = {}
    /\ before_rows = object_permissions
    /\ before_partials = asset_partial_permissions
    /\ calls = 0
    /\ issued = {}
    /\ write_count = 0
    /\ reads = 0
    /\ single_request = Plain("", "")
    /\ single_result = "none"
    /\ singles = 0
    /\ rendered = {}
    /\ lists = 0
    /\ NoRecordRequest
    /\ concurrent = NoConcurrent

\* No bulk request is being applied: none was sent since the last single
\* assignment ("idle"), or the last one has been answered
Quiet == pc \in {"idle", "done", "invalid", "error", "failed"}

\* ----------------------------------------------------------------- actions

\* POST to the single-assignment endpoint
SingleCreate ==
    /\ Quiet
    /\ calls + singles + lists < MaxRequests
    /\ \E request \in SingleInputs(client) :
          LET r == single_assignment(request)
          IN  /\ single_request' = request
              /\ single_result' = r.status
              /\ IF r.status = "created"
                 THEN /\ object_permissions' =
                            assign_perm_rows(object_permissions,
                                             r.grant.user, r.grant.permission)
                      /\ asset_partial_permissions' =
                            assign_perm_partial(asset_partial_permissions,
                                                r.grant.user, r.grant.permission,
                                                r.grant.partial_permissions)
                      /\ rendered' =
                            { to_representation(asset_partial_permissions',
                                                r.grant.user,
                                                r.grant.permission) }
                 ELSE /\ UNCHANGED store
                      /\ rendered' = {}
    /\ singles' = singles + 1
    /\ pc' = "idle"
    /\ UNCHANGED << client, concurrent, data, incoming_assignments, existing_assignments,
                    removals, additions, before_rows, before_partials, calls,
                    issued, write_count, reads, lists, records >>

\* POST to the bulk endpoint, validate() raises
BulkRejected ==
    /\ Quiet
    /\ calls + singles + lists < MaxRequests
    /\ \E r \in BulkRequests[client] :
          /\ r.status # "ok"
          /\ data' = r.data
          /\ pc' = r.status
    /\ calls' = calls + 1
    /\ incoming_assignments' = {}
    /\ existing_assignments' = {}
    /\ removals' = {}
    /\ additions' = {}
    /\ before_rows' = object_permissions
    /\ before_partials' = asset_partial_permissions
    /\ issued' = {}
    /\ write_count' = 0
    /\ reads' = 0
    /\ rendered' = {}
    /\ UNCHANGED << client, concurrent, store, single, lists, records >>

\* Mutant: every incoming triple is assigned, whether it exists or not
BulkBegin_assigning_all ==
    /\ Quiet
    /\ calls + singles + lists < MaxRequests
    /\ LET existing == build_existing_assignments(
                           object_permissions, asset_partial_permissions)
       IN  /\ existing_assignments' = existing
           /\ \E r \in BulkRequests[client] :
                 /\ r.status = "ok"
                 /\ data' = r.data
                 /\ incoming_assignments' = r.incoming
                 /\ removals' = existing \ r.incoming
                 /\ additions' = r.incoming
                 /\ reads' = read_queries(existing, r.incoming)
                 /\ pc' = IF existing \ r.incoming # {} THEN "removing"
                          ELSE IF r.incoming # {} THEN "adding"
                          ELSE "done"
    /\ calls' = calls + 1
    /\ before_rows' = object_permissions
    /\ before_partials' = asset_partial_permissions
    /\ issued' = {}
    /\ write_count' = 0
    /\ rendered' = {}
    /\ UNCHANGED << client, concurrent, store, single, lists, records >>

\* POST to the bulk endpoint, validate() returns: create() up to line 408
BulkBegin ==
    /\ Quiet
    /\ calls + singles + lists < MaxRequests
    /\ LET existing == build_existing_assignments(
                           object_permissions, asset_partial_permissions)
       IN  /\ existing_assignments' = existing
           /\ \E r \in BulkRequests[client] :
                 /\ r.status = "ok"
                 /\ data' = r.data
                 /\ incoming_assignments' = r.incoming
                 /\ removals' = existing \ r.incoming
                 /\ additions' = r.incoming \ existing
                 /\ reads' = read_queries(existing, r.incoming)
                 /\ pc' = IF existing \ r.incoming # {} THEN "removing"
                          ELSE IF r.incoming \ existing # {} THEN "adding"
                          ELSE "done"
    /\ calls' = calls + 1
    /\ before_rows' = object_permissions
    /\ before_partials' = asset_partial_permissions
    /\ issued' = {}
    /\ write_count' = 0
    /\ rendered' = {}
    /\ UNCHANGED << client, concurrent, store, single, lists, records >>

\* create(), lines 410-412: one turn of the removal loop
Remove ==
    /\ pc = "removing"
    /\ \E removal \in removals :
          /\ object_permissions' =
                remove_perm_rows(object_permissions, removal[1], removal[2])
          /\ asset_partial_permissions' =
                remove_perm_partial(asset_partial_permissions,
                                    removal[1], removal[2])
          /\ removals' = removals \ {removal}
          /\ issued' = issued \cup {<<"remove", removal>>}
          /\ pc' = IF removals \ {removal} # {} THEN "removing"
                   ELSE IF additions # {} THEN "adding"
                   ELSE "done"
    /\ write_count' = write_count + 1
    /\ UNCHANGED << client, concurrent, data, incoming_assignments, existing_assignments,
                    additions, before_rows, before_partials, calls, reads,
                    single, rendered, lists, records >>

\* Mutant: additions are made while removals are still to be made
Add_while_removing ==
    /\ pc \in {"removing", "adding"}
    /\ \E addition \in additions :
          /\ ~is_owner(addition[1])
          /\ object_permissions' =
                assign_perm_rows(object_permissions, addition[1], addition[2])
          /\ asset_partial_permissions' =
                assign_perm_partial(asset_partial_permissions,
                                    addition[1], addition[2],
                                    loaded_partial_perms(addition[3]))
          /\ additions' = additions \ {addition}
          /\ issued' = issued \cup {<<"create", addition>>}
          /\ pc' = IF removals # {} THEN "removing"
                   ELSE IF additions \ {addition} # {} THEN "adding"
                   ELSE "done"
    /\ write_count' = write_count + 1
    /\ UNCHANGED << client, concurrent, data, incoming_assignments, existing_assignments,
                    removals, before_rows, before_partials, calls, reads,
                    single, rendered, lists, records >>

\* create(), lines 416-428: one turn of the addition loop
Add ==
    /\ pc = "adding"
    /\ \E addition \in additions :
          /\ ~is_owner(addition[1])
          /\ object_permissions' =
                assign_perm_rows(object_permissions, addition[1], addition[2])
          /\ asset_partial_permissions' =
                assign_perm_partial(asset_partial_permissions,
                                    addition[1], addition[2],
                                    loaded_partial_perms(addition[3]))
          /\ additions' = additions \ {addition}
          /\ issued' = issued \cup {<<"create", addition>>}
          /\ pc' = IF additions \ {addition} # {} THEN "adding" ELSE "done"
    /\ write_count' = write_count + 1
    /\ UNCHANGED << client, concurrent, data, incoming_assignments, existing_assignments,
                    removals, before_rows, before_partials, calls, reads,
                    single, rendered, lists, records >>

\* Mutant: the failure puts the rows and partial permissions back
AddOwner_with_rollback ==
    /\ pc = "adding"
    /\ \E addition \in additions : is_owner(addition[1])
    /\ pc' = "failed"
    /\ object_permissions' = before_rows
    /\ asset_partial_permissions' = before_partials
    /\ UNCHANGED << client, concurrent, data, incoming_assignments,
                    existing_assignments, removals, additions, before_rows,
                    before_partials, calls, issued, write_count, reads,
                    single, rendered, lists, records >>

\* create(), lines 418-421: the addition loop meets a triple of the owner
AddOwner ==
    /\ pc = "adding"
    /\ \E addition \in additions : is_owner(addition[1])
    /\ pc' = "failed"
    /\ UNCHANGED << client, concurrent, store, data, incoming_assignments,
                    existing_assignments, removals, additions, before_rows,
                    before_partials, calls, issued, write_count, reads,
                    single, rendered, lists, records >>

\* GET of the assignments of the asset
ListAssignments ==
    /\ Quiet
    /\ calls + singles + lists < MaxRequests
    /\ lists' = lists + 1
    /\ rendered' = list_representation(object_permissions,
                                       asset_partial_permissions)
    /\ UNCHANGED << client, concurrent, store, bulk, single, records >>

Next ==
    \/ SingleCreate
    \/ ListAssignments
    \/ BulkRejected
    \/ BulkBegin
    \/ Remove
    \/ Add
    \/ AddOwner

Spec == Init /\ [][Next]_vars

\* ------------------------------------------- requests on the submissions

\* asset.assign_perm(self.anotheruser, perm, partial_perms=...) of the tests
AssignPerm ==
    /\ record_calls = 0
    /\ \E grant \in TestGrants :
          /\ object_permissions' =
                assign_perm_rows(object_permissions, request_user, grant.perm)
          /\ asset_partial_permissions' =
                assign_perm_partial(asset_partial_permissions, request_user,
                                    grant.perm, grant.partial_perms)
    /\ UNCHANGED << client, concurrent, bulk, single, rendered, lists, records >>

\* GET of the submission list
ListSubmissions ==
    /\ record_calls < MaxRecordRequests
    /\ record_request' = [op |-> "list", submission_ids |-> <<>>]
    /\ IF has_submission_perm(object_permissions, asset_partial_permissions,
                              request_user, "view_submissions")
       THEN /\ record_status' = 200
            /\ record_results' =
                  allowed_submissions(object_permissions,
                                      asset_partial_permissions, request_user,
                                      "view_submissions", submissions)
       ELSE /\ record_status' = 404
            /\ record_results' = {}
    /\ before_submissions' = submissions
    /\ record_calls' = record_calls + 1
    /\ UNCHANGED << client, concurrent, store, bulk, single, rendered, lists, submissions >>

\* GET of one submission
RetrieveSubmission ==
    /\ record_calls < MaxRecordRequests
    /\ \E id \in SubmissionIds :
          LET found == {sub \in allowed_submissions(
                                   object_permissions,
                                   asset_partial_permissions, request_user,
                                   "view_submissions", submissions) :
                           sub._id = id}
          IN  /\ record_request' = [op |-> "retrieve", submission_ids |-> <<{id}>>]
              /\ record_status' = IF found # {} THEN 200 ELSE 404
              /\ record_results' = found
    /\ before_submissions' = submissions
    /\ record_calls' = record_calls + 1
    /\ UNCHANGED << client, concurrent, store, bulk, single, rendered, lists, submissions >>

\* DELETE on the bulk endpoint, or on one submission
DeleteSubmissions ==
    /\ record_calls < MaxRecordRequests
    /\ \E submission_ids \in SubmissionIdLists :
          LET r == record_action(object_permissions, asset_partial_permissions,
                                 request_user, "delete_submissions",
                                 submission_ids, submissions)
          IN  /\ record_request' = [op |-> "delete",
                                    submission_ids |-> submission_ids]
              /\ record_status' = IF r.status = 200 THEN 204 ELSE r.status
              /\ submissions' = submissions \ r.affected
    /\ record_results' = {}
    /\ before_submissions' = submissions
    /\ record_calls' = record_calls + 1
    /\ UNCHANGED << client, concurrent, store, bulk, single, rendered, lists >>

\* PATCH on the bulk endpoint with the ids of the submissions to update
UpdateSubmissions ==
    /\ record_calls < MaxRecordRequests
    /\ \E submission_ids \in SubmissionIdLists \ {<<>>} :
          LET r == record_action(object_permissions, asset_partial_permissions,
                                 request_user, "change_submissions",
                                 submission_ids, submissions)
          IN  /\ record_request' = [op |-> "update",
                                    submission_ids |-> submission_ids]
              /\ record_status' = r.status
              /\ submissions' = (submissions \ r.affected)
                                   \cup {updated(sub) : sub \in r.affected}
              /\ record_results' = {updated(sub) : sub \in r.affected}
    /\ before_submissions' = submissions
    /\ record_calls' = record_calls + 1
    /\ UNCHANGED << client, concurrent, store, bulk, single, rendered, lists >>

\* PATCH of the validation statuses
EditValidationStatuses ==
    /\ record_calls < MaxRecordRequests
    /\ \E submission_ids \in SubmissionIdLists :
          LET r == record_action(object_permissions, asset_partial_permissions,
                                 request_user, "validate_submissions",
                                 submission_ids, submissions)
          IN  /\ record_request' = [op |-> "validate",
                                    submission_ids |-> submission_ids]
              /\ record_status' = r.status
              /\ submissions' =
                    (submissions \ r.affected)
                    \cup {validated(sub, request_user) : sub \in r.affected}
              /\ record_results' =
                    {validated(sub, request_user) : sub \in r.affected}
    /\ before_submissions' = submissions
    /\ record_calls' = record_calls + 1
    /\ UNCHANGED << client, concurrent, store, bulk, single, rendered, lists >>

RecordsNext ==
    \/ AssignPerm
    \/ ListSubmissions
    \/ RetrieveSubmission
    \/ DeleteSubmissions
    \/ UpdateSubmissions
    \/ EditValidationStatuses

RecordsSpec == InitRecords /\ [][RecordsNext]_vars

\* ------------------------------------------------------------ properties

\* The bulk request d has an item for user_pk with codename
Requests(d, user_pk, codename) ==
    \E i \in DOMAIN d : /\ d[i].user = UserUrl(NameOf(user_pk))
                        /\ d[i].permission = PermUrl(codename)

\* The bulk request d names the owner of the asset
NamesOwner(d) == \E i \in DOMAIN d : d[i].user = UserUrl(NameOf(asset_owner_id))

\* An item of d cannot be resolved: its permission or user reference is no
\* such URL, its codename is not assignable, or there is no such user
HasInvalidEntry(d) ==
    \E i \in DOMAIN d :
        \/ d[i].permission.view # "permission-detail"
        \/ d[i].permission.key \notin get_assignable_permissions
        \/ d[i].user.view # "user-detail"
        \/ d[i].user.key \notin Usernames

\* The last request was a bulk request, and it has been answered
Answered == pc \in {"done", "invalid", "error", "failed"}

StoreUnchanged ==
    /\ object_permissions = before_rows
    /\ asset_partial_permissions = before_partials

\* The explicit assignments of the asset, the owner's excluded, as triples
\* (user pk, codename, serialized partial permissions or null)
AssignmentTriples ==
    { <<k[1], k[2], <<>> >> :
        k \in {r \in UserPks \X AllCodenames :
                  /\ object_permissions[r] > 0
                  /\ r[1] # asset_owner_id
                  /\ r[2] # PERM_PARTIAL_SUBMISSIONS} }
    \cup
    { <<pp[1], PERM_PARTIAL_SUBMISSIONS, <<json_dumps_sorted(pp[2])>> >> :
        pp \in {q \in asset_partial_permissions :
                   /\ q[1] # asset_owner_id
                   /\ object_permissions[<<q[1], PERM_PARTIAL_SUBMISSIONS>>] > 0} }

\* C1: a bulk request with an item that does not pass validation is
\* rejected, and the rows and partial permissions of the asset are then what
\* they were when the request came in.
C1_InvalidBatchChangesNothing ==
    (pc # "idle" /\ calls > 0 /\ HasInvalidEntry(data))
        => (pc \in {"invalid", "error"} /\ StoreUnchanged)

\* C1 witness: a rejected request of two items, one of them valid, on an
\* asset that has assignments
C1_Witness ==
    /\ pc = "invalid"
    /\ Len(data) = 2
    /\ HasInvalidEntry(data)
    /\ \E i \in DOMAIN data : data[i] = Plain("someuser", "view_asset")
    /\ object_permissions # NoRows

\* C2 (as claimed): after a bulk request that does not name the owner has
\* been applied, the assignments of the asset are exactly the incoming set.
C2_AppliedEqualsDesired ==
    (pc = "done" /\ ~NamesOwner(data)) => AssignmentTriples = incoming_assignments

\* C3 (as claimed): the same bulk request sent again right after it was
\* applied finds nothing to remove and nothing to add.
C3_Idempotent ==
    [][(pc = "done" /\ calls' = calls + 1 /\ data' = data)
          => (pc' = "done" /\ removals' = {} /\ additions' = {})]_vars

\* C4 (as claimed): a bulk request that fails on the owner leaves the rows
\* and partial permissions of the asset as they were.
C4_OwnerBatchChangesNothing == (pc = "failed") => StoreUnchanged

\* C5: no assignment row and no partial permissions of the asset belong to
\* its owner, whatever single and bulk requests were answered.
C5_NoOwnerRow ==
    /\ \A c \in AllCodenames : object_permissions[<<asset_owner_id, c>>] = 0
    /\ \A pp \in asset_partial_permissions : pp[1] # asset_owner_id

\* C5 witness: a single assignment and then a bulk request both tried to
\* assign to the owner
C5_Witness ==
    /\ single_result = "OwnerAssignmentForbidden"
    /\ pc = "failed"
    /\ NamesOwner(data)

\* A single-assignment request that passes every check made before create()
SingleWellFormed(request) ==
    /\ request.user.view = "user-detail"
    /\ request.user.key \in Usernames
    /\ request.permission.view = "permission-detail"
    /\ request.permission.key \in get_assignable_permissions
    /\ request.permission.key = PERM_PARTIAL_SUBMISSIONS =>
          /\ request.partial_permissions # <<>>
          /\ request.partial_permissions[1] # <<>>
          /\ \A i \in DOMAIN request.partial_permissions[1] :
                LET sub == request.partial_permissions[1][i]
                IN  /\ sub.url.view = "permission-detail"
                    /\ sub.url.key \in get_assignable_permissions
                    /\ endswith_submissions(sub.url.key)
                    /\ item_get(sub, "filters") # <<>>
                    /\ \A k \in DOMAIN sub.filters : is_dict(sub.filters[k])

\* C6 (as claimed, bulk part): every answered bulk request that names the
\* owner has failed on the owner, whatever its other items are.
C6_OwnerBatchAlwaysRefusedAsOwner ==
    (Answered /\ NamesOwner(data)) => pc = "failed"

\* C6 (amended): a single assignment to the owner makes no grant, and ends
\* with OwnerAssignmentForbidden when it passes the checks made before
\* create(); a bulk request that names the owner and passes validation fails
\* on the owner, whatever the assignments of the asset and its other items.
C6_OwnerRefused ==
    [][ /\ (singles' = singles + 1
            /\ single_request'.user = UserUrl(NameOf(asset_owner_id)))
           => /\ single_result' # "created"
              /\ UNCHANGED store
              /\ SingleWellFormed(single_request')
                    => single_result' = "OwnerAssignmentForbidden"
        /\ (Answered' /\ NamesOwner(data'))
           => pc' \in {"failed", "invalid", "error"}
        /\ (pc \in {"removing", "adding"} /\ Answered' /\ NamesOwner(data))
           => pc' = "failed" ]_vars

\* C6 witness: a bulk request of the owner and of another user has failed on
\* the owner after the store was changed
C6_Witness ==
    /\ pc = "failed"
    /\ Len(data) = 2
    /\ NamesOwner(data)
    /\ \E i \in DOMAIN data : data[i].user # UserUrl(NameOf(asset_owner_id))
    /\ ~StoreUnchanged

TwoImplied ==
    {c \in get_assignable_permissions \ {PERM_PARTIAL_SUBMISSIONS} :
        Cardinality(get_implied_perms(c)) = 2}

\* The bulk request d asks codename for user_pk, itself or as implied by a
\* codename it asks for
RequestsOrImplies(d, user_pk, codename) ==
    \E k \in AllCodenames :
        /\ Requests(d, user_pk, k)
        /\ (codename = k \/ codename \in get_implied_perms(k))

\* C8: once a bulk request is applied, a user for whom it asks a non-partial
\* codename C with implied codenames I1, I2 has one row for each of C, I1,
\* I2 with null filters; and a user for whom it asks none of the three,
\* directly or by implication, has no row for any of them.
C8_ImpliedExpansion ==
    pc = "done" =>
        \A u \in UserPks \ {asset_owner_id} : \A c \in TwoImplied :
            LET three == {c} \cup get_implied_perms(c)
            IN  /\ Requests(data, u, c) =>
                      \A x \in three :
                          /\ object_permissions[<<u, x>>] = 1
                          /\ <<u, x, <<>> >> \in AssignmentTriples
                /\ (\A x \in three : ~RequestsOrImplies(data, u, x)) =>
                      \A x \in three : object_permissions[<<u, x>>] = 0

\* C8 witness: a second bulk request has removed the three rows that the
\* first one had made for anotheruser
C8_Witness ==
    /\ pc = "done"
    /\ calls = 2
    /\ \A x \in {"change_submissions", "view_submissions", "view_asset"} :
          /\ before_rows[<<2, x>>] = 1
          /\ object_permissions[<<2, x>>] = 0

OnePartial(d) ==
    /\ Len(d) = 1
    /\ d[1].permission = PermUrl(PERM_PARTIAL_SUBMISSIONS)
    /\ d[1].partial_permissions # <<>>

\* The (codename, predicate) pairs of the partial permissions of that item
FilterPairs(d) ==
    LET subs == d[1].partial_permissions[1]
    IN  UNION { { <<subs[i].url.key, subs[i].filters[j]>> :
                    j \in DOMAIN subs[i].filters } : i \in DOMAIN subs }

\* C10 (as claimed): when the partial permissions a bulk request asks for a
\* user have the same (codename, predicate) pairs as those of the request
\* applied just before, given in another order, nothing is removed and
\* nothing is added.
C10_FilterEquivalence ==
    [][(/\ pc = "done"
        /\ calls' = calls + 1
        /\ pc' \notin {"invalid", "error"}
        /\ OnePartial(data) /\ OnePartial(data')
        /\ data[1].user = data'[1].user
        /\ FilterPairs(data) = FilterPairs(data'))
          => (removals' = {} /\ additions' = {})]_vars

\* The payload of a request for the partial codename holds no predicate: it
\* is missing, it is the empty list, or each of its items has an empty
\* `filters` list
NoPredicate(request) ==
    /\ request.permission = PermUrl(PERM_PARTIAL_SUBMISSIONS)
    /\ \/ request.partial_permissions = <<>>
       \/ \A i \in DOMAIN request.partial_permissions[1] :
              item_get(request.partial_permissions[1][i], "filters") = << <<>> >>

\* C11 (as claimed): a single assignment of the partial codename to a user
\* who is not the owner, with a payload that holds no predicate, ends with
\* InvalidPartialPermissions.
C11_SingleNeverEmptyFilterSet ==
    (/\ singles > 0
     /\ single_request.user.view = "user-detail"
     /\ single_request.user.key \in Usernames
     /\ NoPredicate(single_request))
        => single_result = "InvalidPartialPermissions"

\* An item of the bulk request d asks the partial codename with a payload
\* that is absent or is the empty list
EmptyPartialItem(d) ==
    \E i \in DOMAIN d :
        /\ d[i].permission = PermUrl(PERM_PARTIAL_SUBMISSIONS)
        /\ \/ d[i].partial_permissions = <<>>
           \/ d[i].partial_permissions[1] = <<>>

\* C12 (as claimed): a bulk request with an item that asks the partial
\* codename with an absent or empty payload is rejected by validation with
\* a validation error, so that nothing of it is applied.
C12_BulkNeverEmptyFilterSet ==
    (pc # "idle" /\ calls > 0 /\ EmptyPartialItem(data)) => pc = "invalid"

\* The reference names a codename that exists and cannot be assigned on the
\* asset
NotAssignable(permission_url) ==
    /\ permission_url.view = "permission-detail"
    /\ permission_url.key \in AllCodenames \ get_assignable_permissions

\* C13: a single assignment of a codename that is not assignable makes no
\* grant and, when its user reference is good, ends with
\* PermissionNotAssignable; a bulk request with an item of such a codename is
\* rejected as a whole by validate(), and the rows and partial permissions
\* of the asset stay as they are.
C13_NotAssignableRejected ==
    [][ /\ (singles' = singles + 1 /\ NotAssignable(single_request'.permission))
           => /\ single_result' # "created"
              /\ UNCHANGED store
              /\ (/\ single_request'.user.view = "user-detail"
                  /\ single_request'.user.key \in Usernames)
                    => single_result' = "PermissionNotAssignable"
        /\ (calls' = calls + 1
            /\ \E i \in DOMAIN data' : NotAssignable(data'[i].permission))
           => /\ pc' \in {"invalid", "error"}
              /\ UNCHANGED store ]_vars

\* C13 witness: a single assignment of add_asset was refused, and then a
\* bulk request of two items, one of them for add_asset, was rejected
C13_Witness ==
    /\ single_result = "PermissionNotAssignable"
    /\ NotAssignable(single_request.permission)
    /\ pc = "invalid"
    /\ Len(data) = 2
    /\ \E i \in DOMAIN data : NotAssignable(data[i].permission)
    /\ \E i \in DOMAIN data : data[i].permission.key \in get_assignable_permissions
    /\ StoreUnchanged

\* The user and the codename a rendered assignment is about
ViewUser(view) == UserTable[DictGet(view, "user")[1].key]
ViewCodename(view) == DictGet(view, "permission")[1].key

\* The user has partial permissions stored, and they are not empty
HasFilterSet(user_pk) ==
    \E pp \in asset_partial_permissions : pp[1] = user_pk /\ pp[2] # <<>>

\* C14: every assignment in a response body has the key partial_permissions
\* exactly when its codename is the partial one and its user has a
\* non-empty stored FilterSet, and then the value is a list, never null.
C14_KeyIffFilterSet ==
    \A view \in rendered :
        /\ "partial_permissions" \in DictKeys(view)
              <=> (/\ startswith_partial(ViewCodename(view))
                   /\ HasFilterSet(ViewUser(view)))
        /\ "partial_permissions" \in DictKeys(view)
              => /\ DictGet(view, "partial_permissions") # <<>>
                 /\ DictGet(view, "partial_permissions")[1] # <<>>

\* C14 witness: a response lists a partial assignment with the key, a
\* partial assignment whose stored FilterSet is empty without it, and an
\* assignment of another codename without it
C14_Witness ==
    /\ \E view \in rendered :
          /\ startswith_partial(ViewCodename(view))
          /\ "partial_permissions" \in DictKeys(view)
    /\ \E view \in rendered :
          /\ startswith_partial(ViewCodename(view))
          /\ ~HasFilterSet(ViewUser(view))
          /\ "partial_permissions" \notin DictKeys(view)
    /\ \E view \in rendered :
          /\ ~startswith_partial(ViewCodename(view))
          /\ "partial_permissions" \notin DictKeys(view)

\* A predicate as a value: two dicts are equal whatever the order of their
\* keys
DictValue(predicate) ==
    IF is_dict(predicate) THEN SortKeys(predicate, FieldOrder) ELSE predicate

\* The (codename, predicate) pairs of a list of {url, filters} items
ListPairs(l) ==
    UNION { { <<l[i].url.key, DictValue(l[i].filters[j])>> :
                j \in DOMAIN l[i].filters } : i \in DOMAIN l }

\* d is a bulk request of one item, a partial assignment to a user who is
\* not the owner, with a well-formed list: at least one item, each with the
\* reference of an assignable record-scoped codename and a non-empty list
\* of dicts
WellFormedPartial(d) ==
    /\ OnePartial(d)
    /\ d[1].user.view = "user-detail"
    /\ d[1].user.key \in Usernames \ {NameOf(asset_owner_id)}
    /\ d[1].partial_permissions[1] # <<>>
    /\ \A i \in DOMAIN d[1].partial_permissions[1] :
          LET sub == d[1].partial_permissions[1][i]
          IN  /\ sub.url.view = "permission-detail"
              /\ sub.url.key \in get_assignable_permissions
              /\ endswith_submissions(sub.url.key)
              /\ sub.filters # <<>>
              /\ \A j \in DOMAIN sub.filters : is_dict(sub.filters[j])

\* The pairs the request supplies, and those of the record-scoped codenames
\* its codenames imply
ExpandedPairs(d) ==
    LET supplied == ListPairs(d[1].partial_permissions[1])
    IN  supplied
        \cup UNION { { <<implied, pair[2]>> :
                         implied \in {c \in get_implied_perms(pair[1]) :
                                         endswith_submissions(c)} } :
                     pair \in supplied }

\* C15 (as claimed): when the assignments are listed after a bulk request
\* that grants the partial codename with a well-formed list, the user's
\* partial_permissions has one item per codename of the stored FilterSet,
\* and its (codename, predicate) pairs are those supplied and those of the
\* implied record-scoped codenames, no more and no less.
C15_RenderedIsSuppliedExpanded ==
    (pc = "done" /\ rendered # {} /\ WellFormedPartial(data)) =>
        LET user_pk == UserTable[data[1].user.key]
        IN  \E view \in rendered :
              /\ ViewUser(view) = user_pk
              /\ startswith_partial(ViewCodename(view))
              /\ "partial_permissions" \in DictKeys(view)
              /\ LET items == DictGet(view, "partial_permissions")[1]
                     stored == get_partial_perms(asset_partial_permissions,
                                                 user_pk)[1]
                 IN  /\ Len(items) = Len(stored)
                     /\ {items[i].url.key : i \in DOMAIN items} = DictKeys(stored)
                     /\ ListPairs(items) = ExpandedPairs(data)

\* The (codename, predicate) pairs of a serialized FilterSet
SerializedPairs(string) ==
    UNION { { <<string[i][1], DictValue(string[i][2][j])>> :
                j \in DOMAIN string[i][2] } : i \in DOMAIN string }

\* C19 (as claimed): once create() has expanded the FilterSet of a
\* well-formed partial item, the entry of every record-scoped codename
\* implied by a supplied codename holds every predicate supplied for that
\* codename, and every entry still holds the predicates supplied for it.
C19_ExpansionMerges ==
    (pc \in {"removing", "adding", "done"} /\ WellFormedPartial(data)) =>
        \A t \in incoming_assignments :
            t[2] = PERM_PARTIAL_SUBMISSIONS =>
                ExpandedPairs(data) \subseteq SerializedPairs(t[3][1])

\* A partial item of the request has a sub-entry whose reference names a
\* codename that does not end with the submissions suffix, or one of whose
\* predicates is no dict
IllFormedSub(request) ==
    /\ request.permission = PermUrl(PERM_PARTIAL_SUBMISSIONS)
    /\ request.partial_permissions # <<>>
    /\ \E j \in DOMAIN request.partial_permissions[1] :
          LET sub == request.partial_permissions[1][j]
          IN  \/ /\ sub.url.view = "permission-detail"
                 /\ ~endswith_submissions(sub.url.key)
              \/ \E k \in DOMAIN sub.filters : ~is_dict(sub.filters[k])

\* C20 (as claimed): a bulk request with a partial item that has such a
\* sub-entry is rejected by validate(), as the single assignment rejects
\* it, and the rows and partial permissions of the asset stay as they are.
C20_BulkSubEntriesValidated ==
    (pc # "idle" /\ calls > 0 /\ \E i \in DOMAIN data : IllFormedSub(data[i]))
        => (pc = "invalid" /\ StoreUnchanged)

\* The only grant of the user is the partial one
OnlyPartialGrant(user_pk) ==
    \A c \in AllCodenames :
        object_permissions[<<user_pk, c>>] > 0 <=> c = PERM_PARTIAL_SUBMISSIONS

\* The stored FilterSet of the user, {} when there is none
FilterSetOf(user_pk) ==
    IF get_partial_perms(asset_partial_permissions, user_pk) = <<>> THEN <<>>
    ELSE get_partial_perms(asset_partial_permissions, user_pk)[1]

\* The submissions among subs that have every value of the predicate
Matching(subs, predicate) ==
    {sub \in subs :
        \A kv \in {predicate[i] : i \in DOMAIN predicate} : sub[kv[1]] = kv[2]}

\* C16: for a user whose only grant is the partial one with the FilterSet
\* {view_submissions: [p]}, the list has all the submissions that match p
\* and no other, a submission that matches p is retrieved, and one that
\* does not is answered 404.
C16_PartialViewSeesMatching ==
    (/\ record_calls > 0
     /\ OnlyPartialGrant(request_user)
     /\ DictKeys(FilterSetOf(request_user)) = {"view_submissions"}
     /\ Len(DictGet(FilterSetOf(request_user), "view_submissions")) = 1)
    => LET p == DictGet(FilterSetOf(request_user), "view_submissions")[1]
           matching == Matching(submissions, p)
       IN  /\ record_request.op = "list"
                => /\ record_status = 200
                   /\ record_results = matching
                   /\ Cardinality(record_results) = Cardinality(matching)
           /\ record_request.op = "retrieve"
                => LET wanted == {sub \in submissions :
                                     sub._id \in record_request.submission_ids[1]}
                   IN  IF wanted \subseteq matching /\ wanted # {}
                       THEN record_status = 200 /\ record_results = wanted
                       ELSE record_status = 404 /\ record_results = {}

\* C16 witness: the list of such a user has some of the submissions and not
\* all of them
C16_Witness ==
    /\ OnlyPartialGrant(request_user)
    /\ DictKeys(FilterSetOf(request_user)) = {"view_submissions"}
    /\ record_request.op = "list"
    /\ record_status = 200
    /\ record_results # {}
    /\ record_results # submissions

\* The codename a request on the submissions needs
ActionCodename(op) ==
    CASE op = "delete" -> "delete_submissions"
      [] op = "update" -> "change_submissions"
      [] op = "validate" -> "validate_submissions"
      [] OTHER -> "view_submissions"

\* The user has `codename` through the partial grant only
PartialOnlyFor(user_pk, codename) ==
    /\ object_permissions[<<user_pk, codename>>] = 0
    /\ object_permissions[<<user_pk, PERM_PARTIAL_SUBMISSIONS>>] > 0
    /\ codename \in DictKeys(FilterSetOf(user_pk))

\* The submissions among subs that match one of the user's predicates for
\* `codename`
MatchingFilter(subs, user_pk, codename) ==
    LET filters == DictGet(FilterSetOf(user_pk), codename)
    IN  UNION {Matching(subs, filters[j]) : j \in DOMAIN filters}

\* subs once the action `op` has been applied to those of `affected`
Applied(op, subs, affected) ==
    CASE op = "delete" -> subs \ affected
      [] op = "update" ->
           (subs \ affected) \cup {[sub EXCEPT !.q1 = "updated"] : sub \in affected}
      [] op = "validate" ->
           (subs \ affected)
           \cup {[sub EXCEPT !._validation_status.uid = "validation_status_approved",
                            !._validation_status.by_whom = NameOf(request_user)] :
                    sub \in affected}
      [] OTHER -> subs

C18_ConfirmedActsOnMatching ==
    (/\ record_request.op \in {"delete", "validate"}
     /\ record_request.submission_ids = <<>>
     /\ PartialOnlyFor(request_user, ActionCodename(record_request.op)))
    => LET matching == MatchingFilter(before_submissions, request_user,
                                      ActionCodename(record_request.op))
       IN  /\ record_status \in {200, 204}
           /\ submissions = Applied(record_request.op, before_submissions,
                                    matching)
           /\ \A sub \in before_submissions \ matching : sub \in submissions

\* C18 witness: such a delete has removed some of the submissions and left
\* the others
C18_Witness ==
    /\ record_request.op = "delete"
    /\ record_request.submission_ids = <<>>
    /\ PartialOnlyFor(request_user, "delete_submissions")
    /\ record_status = 204
    /\ submissions # before_submissions
    /\ submissions # {}

\* The request is a single assignment of the partial codename to a user of
\* the table, with a list of sub-entries
PartialListFor(request) ==
    /\ request.user.view = "user-detail"
    /\ request.user.key \in Usernames
    /\ request.permission = PermUrl(PERM_PARTIAL_SUBMISSIONS)
    /\ request.partial_permissions # <<>>
    /\ request.partial_permissions[1] # <<>>

\* The reference of the sub-entry does not resolve to an assignable codename
\* that ends with the submissions suffix
BadReference(sub) ==
    LET url == item_get(sub, "url")
    IN  \/ url = <<>>
        \/ url[1].view # "permission-detail"
        \/ url[1].key \notin get_assignable_permissions
        \/ ~endswith_submissions(url[1].key)

\* One of the predicates of the sub-entry is no mapping
BadPredicate(sub) ==
    LET filters == item_get(sub, "filters")
    IN  /\ filters # <<>>
        /\ \E k \in DOMAIN filters[1] : ~is_dict(filters[1][k])

\* C21 (as claimed): a single assignment of the partial codename in which a
\* sub-entry has a reference that does not resolve to an assignable codename
\* with the submissions suffix, or a predicate that is no mapping, ends with
\* InvalidPartialPermissions.
C21_SingleSubEntriesChecked ==
    (/\ singles > 0
     /\ PartialListFor(single_request)
     /\ \E i \in DOMAIN single_request.partial_permissions[1] :
           \/ BadReference(single_request.partial_permissions[1][i])
           \/ BadPredicate(single_request.partial_permissions[1][i]))
        => single_result = "InvalidPartialPermissions"

\* The sub-entry is malformed: it has no reference, it has no filters, its
\* reference does not resolve, or one of its predicates is no mapping
MalformedSub(sub) ==
    \/ item_get(sub, "url") = <<>>
    \/ item_get(sub, "filters") = <<>>
    \/ resolve_kwarg(item_get(sub, "url")[1], "codename") = <<>>
    \/ BadPredicate(sub)

\* C22 (as claimed): a single assignment of the partial codename with a
\* malformed sub-entry ends with InvalidPartialPermissions, and with no
\* other failure.
C22_MalformedSubIsValidationError ==
    (/\ singles > 0
     /\ PartialListFor(single_request)
     /\ \E i \in DOMAIN single_request.partial_permissions[1] :
           MalformedSub(single_request.partial_permissions[1][i]))
        => single_result = "InvalidPartialPermissions"

\* The predicates the sub-entries of a list supply for a codename, in the
\* order of the list
RECURSIVE SuppliedFor(_, _)
SuppliedFor(subs, codename) ==
    IF subs = <<>> THEN <<>>
    ELSE (IF Head(subs).url.key = codename THEN Head(subs).filters ELSE <<>>)
         \o SuppliedFor(Tail(subs), codename)

\* The FilterSet holds, for every codename the sub-entries supply predicates
\* for, all of these predicates in their order
HoldsAllSupplied(filter_set, subs) ==
    \A codename \in AllCodenames :
        SuppliedFor(subs, codename) # <<>> =>
            /\ codename \in DictKeys(filter_set)
            /\ DictGet(filter_set, codename) = SuppliedFor(subs, codename)

\* C23 (as claimed): the FilterSet a single assignment of the partial
\* codename stores, and the FilterSet validate() returns for each partial
\* item of a bulk request, hold for every codename the predicates of all the
\* sub-entries that name it, in the order they were sent.
C23_DuplicateCodenamesAccumulate ==
    /\ (pc = "idle" /\ single_result = "created"
        /\ single_request.permission = PermUrl(PERM_PARTIAL_SUBMISSIONS))
       => HoldsAllSupplied(FilterSetOf(UserTable[single_request.user.key]),
                           single_request.partial_permissions[1])
    /\ (pc # "idle" /\ calls > 0 /\ validate(data).status = "ok")
       => \A i \in DOMAIN data :
             (/\ data[i].permission = PermUrl(PERM_PARTIAL_SUBMISSIONS)
              /\ data[i].partial_permissions # <<>>)
             => HoldsAllSupplied(
                    validate(data).assignments[i].partial_permissions[1],
                    data[i].partial_permissions[1])

\* The triples create() has removed, and those it has created
Removed == {op[2] : op \in {o \in issued : o[1] = "remove"}}
Created == {op[2] : op \in {o \in issued : o[1] = "create"}}

\* The rows are those of before the request, less the removed ones, plus the
\* created ones
RowsAreEffectOfIssued ==
    \A k \in UserPks \X AllCodenames :
        object_permissions[k] =
            IF \E t \in Created : <<t[1], t[2]>> = k THEN 1
            ELSE IF \E t \in Removed : <<t[1], t[2]>> = k THEN 0
            ELSE before_rows[k]

\* The partial permissions of each user are those of a created partial
\* triple if there is one, none if the partial triple was removed and none
\* created, and else those of before the request
PartialsAreEffectOfIssued ==
    \A u \in UserPks :
        LET created == {t \in Created : t[1] = u /\ t[2] = PERM_PARTIAL_SUBMISSIONS}
            removed == {t \in Removed : t[1] = u /\ t[2] = PERM_PARTIAL_SUBMISSIONS}
            now == get_partial_perms(asset_partial_permissions, u)
        IN  IF created # {}
            THEN \E t \in created : now = <<json_loads(t[3][1])>>
            ELSE IF removed # {} THEN now = <<>>
            ELSE now = get_partial_perms(before_partials, u)

\* C24: when create() has failed on a triple of the owner, every triple of
\* existing minus desired has been removed, the additions made before the
\* failure are in the store, the others are not, and the store is the one of
\* before the request with these removals and additions: nothing is undone.
C24_FailureKeepsAppliedWrites ==
    pc = "failed" =>
        /\ removals = {}
        /\ Removed = existing_assignments \ incoming_assignments
        /\ Created \cup additions = incoming_assignments \ existing_assignments
        /\ Created \cap additions = {}
        /\ \E t \in additions : t[1] = asset_owner_id
        /\ RowsAreEffectOfIssued
        /\ PartialsAreEffectOfIssued

\* C24 witness: the request has failed after a removal and an addition, and
\* an addition for another user than the owner was not made
C24_Witness ==
    /\ pc = "failed"
    /\ Removed # {}
    /\ Created # {}
    /\ \E t \in additions : t[1] # asset_owner_id
    /\ \E t \in Removed : object_permissions[<<t[1], t[2]>>] = 0
    /\ \E t \in Created : before_rows[<<t[1], t[2]>>] = 0
                          /\ object_permissions[<<t[1], t[2]>>] = 1
    /\ \E t \in additions : t[1] # asset_owner_id
                            /\ object_permissions[<<t[1], t[2]>>] = 0

\* C25: in every run of create(), an assign_perm call is made only when no
\* triple of existing minus desired is left to remove: the removals have all
\* been made before the first addition.
C25_RemovalsBeforeAdditions ==
    [][(Created' # Created /\ calls' = calls)
          => /\ removals = {}
             /\ Removed = existing_assignments \ incoming_assignments
             /\ Removed' = Removed]_vars

\* C25 witness: an addition has been made in a run that had triples to
\* remove and has further additions to make
C25_Witness ==
    /\ pc = "adding"
    /\ Created # {}
    /\ Cardinality(Removed) >= 2
    /\ additions # {}

\* C26: create() calls remove_perm only for triples of existing minus
\* desired and assign_perm only for triples of desired minus existing, each
\* at most once, and never for a triple that is in both sets; when it
\* returns it has made one call for each triple of the two differences, so
\* that the number of calls is the size of the symmetric difference.
C26_WritesAreTheDelta ==
    pc \in {"removing", "adding", "done", "failed"} =>
        /\ Removed \subseteq existing_assignments \ incoming_assignments
        /\ Created \subseteq incoming_assignments \ existing_assignments
        /\ write_count = Cardinality(Removed) + Cardinality(Created)
        /\ \A t \in existing_assignments \cap incoming_assignments :
              /\ t \notin Removed \cup Created
              /\ object_permissions[<<t[1], t[2]>>] = before_rows[<<t[1], t[2]>>]
        /\ pc = "done" =>
              /\ Removed = existing_assignments \ incoming_assignments
              /\ Created = incoming_assignments \ existing_assignments
              /\ write_count =
                    Cardinality(existing_assignments \ incoming_assignments)
                    + Cardinality(incoming_assignments \ existing_assignments)

\* C26 witness: a request of two items whose triples are, all but one,
\* assigned already has been applied with one call
C26_Witness ==
    /\ pc = "done"
    /\ Len(data) = 2
    /\ Cardinality(incoming_assignments) >= 3
    /\ Cardinality(existing_assignments \cap incoming_assignments) >= 2
    /\ write_count = 1

\* C27 (as claimed): create() makes at most 2 read queries before its
\* loops, whatever the request and the assignments of the asset.
C27_AtMostTwoReads == reads <= 2

\* The request is one well-formed partial item for a user who holds the
\* partial grant with another FilterSet than the one create() builds from
\* the item
ChangesFilterSet(d) ==
    /\ WellFormedPartial(d)
    /\ LET user_pk == UserTable[d[1].user.key]
       IN  /\ before_rows[<<user_pk, PERM_PARTIAL_SUBMISSIONS>>] > 0
           /\ get_partial_perms(before_partials, user_pk) # <<>>
           /\ <<user_pk, PERM_PARTIAL_SUBMISSIONS,
                <<json_dumps_sorted(
                      get_partial_perms(before_partials, user_pk)[1])>> >>
                 \notin incoming_assignments

\* C28 (as claimed): when a bulk request asks the partial codename for a user
\* who holds it with another FilterSet, create() removes the user's partial
\* assignment, then creates it with the FilterSet of the request, and once
\* the request is applied the (codename, predicate) pairs stored for the user
\* are those the request supplies and those of the implied record-scoped
\* codenames, and no other.
C28_ChangedFilterSetReplaced ==
    (pc \in {"removing", "adding", "done"} /\ ChangesFilterSet(data)) =>
        LET user_pk == UserTable[data[1].user.key]
            old == <<user_pk, PERM_PARTIAL_SUBMISSIONS,
                     <<json_dumps_sorted(
                           get_partial_perms(before_partials, user_pk)[1])>> >>
        IN  /\ old \in removals \cup Removed
            /\ old \in removals => Created = {}
            /\ pc = "done" =>
                  /\ old \in Removed
                  /\ \E t \in Created :
                        t[1] = user_pk /\ t[2] = PERM_PARTIAL_SUBMISSIONS
                  /\ SerializedPairs(FilterSetOf(user_pk)) = ExpandedPairs(data)

\* C29: in the incoming set and in the existing set that create() builds,
\* a triple carries a serialized FilterSet exactly when its codename is the
\* partial one; the triples of every other codename, asked or implied, carry
\* null.
C29_FiltersOnlyOnPartialTriples ==
    \A t \in incoming_assignments \cup existing_assignments :
        t[3] # <<>> <=> t[2] = PERM_PARTIAL_SUBMISSIONS

\* C29 witness: both sets have a triple of the partial codename and, for the
\* same user, a triple of another codename; the incoming set has an implied
\* triple
C29_Witness ==
    /\ \E t \in incoming_assignments : \E n \in incoming_assignments :
          /\ t[2] = PERM_PARTIAL_SUBMISSIONS /\ t[3] # <<>>
          /\ n[1] = t[1] /\ n[2] # PERM_PARTIAL_SUBMISSIONS /\ n[3] = <<>>
          /\ ~Requests(data, n[1], n[2])
    /\ \E t \in existing_assignments : \E n \in existing_assignments :
          /\ t[2] = PERM_PARTIAL_SUBMISSIONS /\ t[3] # <<>>
          /\ n[1] = t[1] /\ n[2] # PERM_PARTIAL_SUBMISSIONS /\ n[3] = <<>>

\* The triples create() has to remove and to add for the request, and
\* whether one of those to add is for the owner
ToRemove == existing_assignments \ incoming_assignments
ToAdd == incoming_assignments \ existing_assignments
OwnerInToAdd == \E t \in ToAdd : t[1] = asset_owner_id

\* The store a request leaves, as a function of the store it found and of
\* the two sets: the removals are made; the additions are all made, or none
\* of them when one is for the owner; of several FilterSets for one user,
\* one and the same is kept.
OutcomeRow(k) ==
    IF ~OwnerInToAdd /\ \E t \in ToAdd : <<t[1], t[2]>> = k THEN 1
    ELSE IF \E t \in ToRemove : <<t[1], t[2]>> = k THEN 0
    ELSE before_rows[k]

OutcomePartial(u) ==
    LET adds == {t \in ToAdd : t[1] = u /\ t[2] = PERM_PARTIAL_SUBMISSIONS}
        rems == {t \in ToRemove : t[1] = u /\ t[2] = PERM_PARTIAL_SUBMISSIONS}
    IN  IF ~OwnerInToAdd /\ adds # {}
        THEN <<json_loads((CHOOSE t \in adds : TRUE)[3][1])>>
        ELSE IF rems # {} THEN <<>>
        ELSE get_partial_perms(before_partials, u)

\* C30 (as claimed): a bulk request succeeds or fails, and builds its
\* incoming set, as every other request with the same set of items does (the
\* items in another order, or repeated), and the store it leaves is a
\* function of the store it found and of that set.
C30_OutcomeDependsOnEntrySet ==
    /\ (pc # "idle" /\ calls > 0) =>
          \A r \in BulkRequests[client] :
              SeqToSet(r.data) = SeqToSet(data) =>
                  /\ r.status = "ok" <=> pc \notin {"invalid", "error"}
                  /\ r.status = "ok" => r.incoming = incoming_assignments
    /\ pc \in {"done", "failed"} =>
          /\ pc = "failed" <=> OwnerInToAdd
          /\ \A k \in UserPks \X AllCodenames :
                object_permissions[k] = OutcomeRow(k)
          /\ \A u \in UserPks :
                get_partial_perms(asset_partial_permissions, u) = OutcomePartial(u)

\* ------------------------------------------------ reconcile and owner rows

\* Stores in which the owner holds rows of its own, the rows that line 396
\* keeps out of the existing set
OwnedStores ==
    { << [NoRows EXCEPT ![<<asset_owner_id, "view_asset">>] = 1,
                        ![<<asset_owner_id, "change_asset">>] = 1,
                        ![<<2, "view_asset">>] = 1,
                        ![<<2, "view_submissions">>] = 1,
                        ![<<3, "view_asset">>] = 1], {} >>,
      << [NoRows EXCEPT ![<<asset_owner_id, "view_asset">>] = 1,
                        ![<<asset_owner_id, "view_submissions">>] = 1,
                        ![<<2, "partial_submissions">>] = 1,
                        ![<<3, "delete_submissions">>] = 1],
         { <<2, << <<"view_submissions", <<P_bob, P_two>> >> >> >> } >> }

InitOwned ==
    /\ client \in {"sharing", "partial"}
    /\ \E s \in OwnedStores :
          /\ object_permissions = s[1]
          /\ asset_partial_permissions = s[2]
    /\ pc = "idle"
    /\ data = <<>>
    /\ incoming_assignments = {}
    /\ existing_assignments = {}
    /\ removals = {}
    /\ additions = {}
    /\ before_rows = object_permissions
    /\ before_partials = asset_partial_permissions
    /\ calls = 0
    /\ issued = {}
    /\ write_count = 0
    /\ reads = 0
    /\ single_request = Plain("", "")
    /\ single_result = "none"
    /\ singles = 0
    /\ rendered = {}
    /\ lists = 0
    /\ NoRecordRequest
    /\ concurrent = NoConcurrent

\* create() of the bulk serializer, and nothing else, on these stores
ReconcileNext ==
    \/ BulkBegin
    \/ Remove
    \/ Add
    \/ AddOwner

ReconcileSpec == InitOwned /\ [][ReconcileNext]_vars

\* The rows and partial permissions of a user
RowsOf(rows, user_pk) ==
    {k \in DOMAIN rows : k[1] = user_pk /\ rows[k] > 0}

PartialsOf(partials, user_pk) == {pp \in partials : pp[1] = user_pk}

OwnerSingle(request) == request.user = UserUrl(NameOf(asset_owner_id))

\* Its codename exists and is not assignable on the asset
NotAssignableCodename(request) ==
    /\ request.permission.view = "permission-detail"
    /\ request.permission.key \in AllCodenames
    /\ request.permission.key \notin get_assignable_permissions

\* It assigns the partial codename without a payload
PayloadMissing(request) ==
    /\ request.permission = PermUrl(PERM_PARTIAL_SUBMISSIONS)
    /\ request.partial_permissions \in { <<>>, << <<>> >> }

\* It assigns the partial codename with a sub-entry that is malformed or
\* whose reference is no assignable codename with the submissions suffix
PayloadMalformed(request) ==
    /\ PartialListFor(request)
    /\ \E i \in DOMAIN request.partial_permissions[1] :
          \/ MalformedSub(request.partial_permissions[1][i])
          \/ BadReference(request.partial_permissions[1][i])

\* C32 (as claimed): a single assignment that is rejected creates no grant;
\* one that names the owner and has a codename that is not assignable ends
\* with PermissionNotAssignable, and one that names the owner and has a
\* missing or malformed partial payload ends with InvalidPartialPermissions,
\* not with OwnerAssignmentForbidden.
C32_OwnerCheckIsLast ==
    [][ singles' = singles + 1 =>
          /\ single_result' # "created" => UNCHANGED store
          /\ (OwnerSingle(single_request')
               /\ NotAssignableCodename(single_request'))
                 => single_result' = "PermissionNotAssignable"
          /\ (OwnerSingle(single_request')
               /\ (PayloadMissing(single_request')
                   \/ PayloadMalformed(single_request')))
                 => single_result' = "InvalidPartialPermissions" ]_vars

\* ------------------------------------------- what a partial entry adds

\* The request has one entry for the user, and it assigns the partial
\* codename
OnlyPartialFor(d, username) ==
    \E i \in DOMAIN d :
        /\ d[i].user = UserUrl(username)
        /\ d[i].permission = PermUrl(PERM_PARTIAL_SUBMISSIONS)
        /\ \A j \in DOMAIN d : d[j].user = UserUrl(username) => j = i

\* C34: an entry that assigns the partial codename adds one triple, of that
\* codename and with serialized partial permissions, and no triple of an
\* implied codename: a user for whom the request has only that entry has
\* exactly one incoming triple, and when the request is done the user holds
\* the row of the partial codename with these partial permissions (the same
\* dict, whatever the order of its keys) and no other row.
C34_PartialEntryIsOneTriple ==
    \A username \in Usernames :
        (pc \in {"removing", "adding", "done", "failed"}
         /\ OnlyPartialFor(data, username)) =>
            LET user_pk == UserTable[username]
                mine == {t \in incoming_assignments : t[1] = user_pk}
            IN  /\ Cardinality(mine) = 1
                /\ \A t \in mine :
                      /\ t[2] = PERM_PARTIAL_SUBMISSIONS
                      /\ t[3] # <<>>
                      /\ pc = "done" =>
                            /\ RowsOf(object_permissions, user_pk) =
                                  {<<user_pk, PERM_PARTIAL_SUBMISSIONS>>}
                            /\ Cardinality(PartialsOf(asset_partial_permissions,
                                                      user_pk)) = 1
                            /\ \A pp \in PartialsOf(asset_partial_permissions,
                                                    user_pk) :
                                  json_dumps_sorted(pp[2]) = t[3][1]

\* A request with only a partial entry for a user is done, and the rows
\* of other codenames the user held before are gone
C34_Witness ==
    /\ pc = "done"
    /\ OnlyPartialFor(data, "anotheruser")
    /\ before_rows[<<2, "view_asset">>] > 0
    /\ before_rows[<<2, "view_submissions">>] > 0
    /\ object_permissions[<<2, "view_asset">>] = 0
    /\ object_permissions[<<2, "view_submissions">>] = 0

\* ---------------------------------------- expansion and the supply order

\* The sub-entries of the partial item name different codenames
DistinctSubCodenames(d) ==
    LET subs == d[1].partial_permissions[1]
    IN  \A i, j \in DOMAIN subs : subs[i].url.key = subs[j].url.key => i = j

\* The dict validate() returns for the partial item, its keys in the order
\* of the sub-entries
SuppliedFilterSet(d) == validate(d).assignments[1].partial_permissions[1]

\* C35 (as claimed): the serialized FilterSet of a well-formed partial item
\* does not depend on the order of its sub-entries: it is the one create()
\* builds when the same sub-entries come in the order of their codenames.
C35_ExpansionIgnoresSupplyOrder ==
    (/\ pc \in {"removing", "adding", "done"}
     /\ WellFormedPartial(data)
     /\ DistinctSubCodenames(data)) =>
        \A t \in incoming_assignments :
            t[2] = PERM_PARTIAL_SUBMISSIONS =>
                t[3][1] = incoming_partial_permissions(
                              SortKeys(SuppliedFilterSet(data), CodenameOrder))

\* ------------------------------------------- the queue of partial codenames

\* What the conversion loop of validate() makes of a request that passed
\* the checks: the assignment objects and what is left of the queue
Converted(d) ==
    LET names == collect(d, 1, [status |-> "ok", usernames |-> <<>>,
                                codenames |-> <<>>, partial_codenames |-> <<>>])
    IN  convert(d, names, 1, names.partial_codenames, <<>>)

\* The codename the reference of a sub-entry resolves to
SubCodename(sub) == get_permission_codename(sub.url)[1]

\* The filters of the last sub-entry of the list that names the codename
LastFiltersFor(subs, codename) ==
    subs[CHOOSE j \in DOMAIN subs :
            /\ SubCodename(subs[j]) = codename
            /\ \A k \in DOMAIN subs :
                  SubCodename(subs[k]) = codename => k <= j].filters

\* C36: for every request that passed validate(), the conversion loop
\* leaves the queue of partial codenames empty and gives every partial
\* assignment the codenames of its own sub-entries, each with the filters
\* of the sub-entry it was resolved from.
C36_QueueStaysAligned ==
    pc \in {"removing", "adding", "done", "failed"} =>
        LET r == Converted(data)
        IN  /\ r.queue = <<>>
            /\ Len(r.objects) = Len(data)
            /\ \A idx \in DOMAIN data :
                  data[idx].permission = PermUrl(PERM_PARTIAL_SUBMISSIONS) =>
                      LET subs == data[idx].partial_permissions[1]
                          partial_permissions ==
                              r.objects[idx].partial_permissions[1]
                      IN  /\ DictKeys(partial_permissions) =
                                {SubCodename(subs[j]) : j \in DOMAIN subs}
                          /\ \A codename \in DictKeys(partial_permissions) :
                                DictGet(partial_permissions, codename) =
                                    LastFiltersFor(subs, codename)

\* A request of two partial assignments that name different codenames
\* passed validate()
C36_Witness ==
    /\ pc \in {"removing", "adding", "done"}
    /\ Len(data) = 2
    /\ \A idx \in DOMAIN data :
          data[idx].permission = PermUrl(PERM_PARTIAL_SUBMISSIONS)
    /\ Len(data[2].partial_permissions[1]) = 2
    /\ {SubCodename(data[1].partial_permissions[1][j]) :
            j \in DOMAIN data[1].partial_permissions[1]}
       # {SubCodename(data[2].partial_permissions[1][j]) :
            j \in DOMAIN data[2].partial_permissions[1]}

\* ---------------------------------------------- two bulk requests at once

\* Two requests on the same asset, each running create() (lines 373-429):
\* the first is the one of BulkBegin, Remove, Add and AddOwner, the second
\* keeps its own sets in `concurrent`.  A step is one call of create() on
\* the store: the queries of lines 375-398 together, one remove_perm or one
\* assign_perm.  Nothing in create() waits for the other request.

\* Mutant: the second request waits until the first has been answered
ConcurrentBegin_when_quiet ==
    /\ Quiet
    /\ concurrent.pc = "idle"
    /\ LET existing == build_existing_assignments(
                           object_permissions, asset_partial_permissions)
       IN  \E r \in BulkRequests[client] :
              /\ r.status = "ok"
              /\ concurrent' =
                    [pc |-> IF existing \ r.incoming # {} THEN "removing"
                            ELSE IF r.incoming \ existing # {} THEN "adding"
                            ELSE "done",
                     data |-> r.data,
                     incoming_assignments |-> r.incoming,
                     existing_assignments |-> existing,
                     removals |-> existing \ r.incoming,
                     additions |-> r.incoming \ existing]
    /\ UNCHANGED << client, store, bulk, single, rendered, lists, records >>

\* create(), lines 327-407, of the second request
ConcurrentBegin ==
    /\ concurrent.pc = "idle"
    /\ LET existing == build_existing_assignments(
                           object_permissions, asset_partial_permissions)
       IN  \E r \in BulkRequests[client] :
              /\ r.status = "ok"
              /\ concurrent' =
                    [pc |-> IF existing \ r.incoming # {} THEN "removing"
                            ELSE IF r.incoming \ existing # {} THEN "adding"
                            ELSE "done",
                     data |-> r.data,
                     incoming_assignments |-> r.incoming,
                     existing_assignments |-> existing,
                     removals |-> existing \ r.incoming,
                     additions |-> r.incoming \ existing]
    /\ UNCHANGED << client, store, bulk, single, rendered, lists, records >>

\* create(), lines 410-412, of the second request
ConcurrentRemove ==
    /\ concurrent.pc = "removing"
    /\ \E removal \in concurrent.removals :
          /\ object_permissions' =
                remove_perm_rows(object_permissions, removal[1], removal[2])
          /\ asset_partial_permissions' =
                remove_perm_partial(asset_partial_permissions,
                                    removal[1], removal[2])
          /\ concurrent' =
                [concurrent EXCEPT
                    !.removals = @ \ {removal},
                    !.pc = IF concurrent.removals \ {removal} # {}
                           THEN "removing"
                           ELSE IF concurrent.additions # {} THEN "adding"
                           ELSE "done"]
    /\ UNCHANGED << client, bulk, single, rendered, lists, records >>

\* create(), lines 416-428, of the second request
ConcurrentAdd ==
    /\ concurrent.pc = "adding"
    /\ \E addition \in concurrent.additions :
          /\ ~is_owner(addition[1])
          /\ object_permissions' =
                assign_perm_rows(object_permissions, addition[1], addition[2])
          /\ asset_partial_permissions' =
                assign_perm_partial(asset_partial_permissions,
                                    addition[1], addition[2],
                                    loaded_partial_perms(addition[3]))
          /\ concurrent' =
                [concurrent EXCEPT
                    !.additions = @ \ {addition},
                    !.pc = IF concurrent.additions \ {addition} # {}
                           THEN "adding" ELSE "done"]
    /\ UNCHANGED << client, bulk, single, rendered, lists, records >>

\* create(), lines 418-421, of the second request
ConcurrentAddOwner ==
    /\ concurrent.pc = "adding"
    /\ \E addition \in concurrent.additions : is_owner(addition[1])
    /\ concurrent' = [concurrent EXCEPT !.pc = "failed"]
    /\ UNCHANGED << client, store, bulk, single, rendered, lists, records >>

\* Both requests are those of the client that shares the asset, on rows
\* granted by earlier requests; the first is the last one of the behaviour
InitRace ==
    /\ client = "sharing"
    /\ object_permissions = [NoRows EXCEPT ![<<2, "view_asset">>] = 1,
                                           ![<<2, "view_submissions">>] = 1,
                                           ![<<3, "view_asset">>] = 1]
    /\ asset_partial_permissions = {}
    /\ pc = "idle"
    /\ data = <<>>
    /\ incoming_assignments = {}
    /\ existing_assignments = {}
    /\ removals = {}
    /\ additions = {}
    /\ before_rows = object_permissions
    /\ before_partials = asset_partial_permissions
    /\ calls = MaxRequests - 1
    /\ issued = {}
    /\ write_count = 0
    /\ reads = 0
    /\ single_request = Plain("", "")
    /\ single_result = "none"
    /\ singles = 0
    /\ rendered = {}
    /\ lists = 0
    /\ NoRecordRequest
    /\ concurrent = NoConcurrent

RaceNext ==
    \/ BulkBegin
    \/ Remove
    \/ Add
    \/ AddOwner
    \/ ConcurrentBegin
    \/ ConcurrentRemove
    \/ ConcurrentAdd
    \/ ConcurrentAddOwner

RaceSpec == InitRace /\ [][RaceNext]_vars

\* C33: nothing in create() keeps two requests apart.  While one request is
\* between its queries and its last write the other can make its queries,
\* and a request that has removals or additions left can make the next one
\* whatever the other request is doing; the sets a request computed from its
\* queries are not computed again when the other request writes.
C33_NothingSerializesTheCalls ==
    /\ (pc \in {"removing", "adding"} /\ concurrent.pc = "idle")
          => ENABLED ConcurrentBegin
    /\ (concurrent.pc \in {"removing", "adding"} /\ Quiet
        /\ calls + singles + lists < MaxRequests)
          => ENABLED BulkBegin
    /\ pc = "removing" => ENABLED Remove
    /\ pc = "adding" => ENABLED (Add \/ AddOwner)
    /\ concurrent.pc = "removing" => ENABLED ConcurrentRemove
    /\ concurrent.pc = "adding"
          => ENABLED (ConcurrentAdd \/ ConcurrentAddOwner)
    /\ removals \subseteq existing_assignments \ incoming_assignments
    /\ additions \subseteq incoming_assignments \ existing_assignments
    /\ concurrent.removals \subseteq
          concurrent.existing_assignments \ concurrent.incoming_assignments
    /\ concurrent.additions \subseteq
          concurrent.incoming_assignments \ concurrent.existing_assignments

\* Two requests of plain assignments, none to the owner, made their queries
\* on the same rows and have both been applied to the end; the assignments
\* of the asset are neither those of the one nor those of the other
C33_Witness ==
    /\ client = "sharing"
    /\ pc = "done"
    /\ concurrent.pc = "done"
    /\ ~NamesOwner(data)
    /\ ~NamesOwner(concurrent.data)
    /\ existing_assignments = concurrent.existing_assignments
    /\ AssignmentTriples # incoming_assignments
    /\ AssignmentTriples # concurrent.incoming_assignments

====
